---- MODULE Spec2Model ----
(***************************************************************************)
(* Transcription job lifecycle of tabscribe: TranscriptionManager, the      *)
(* AssemblyAIAdapter, the recordings store over IndexedDB                  *)
(* (lib/db/indexeddb) and the UI handlers that drive them (+page.svelte,   *)
(* RecordingItem, Settings).                                               *)
(*                                                                         *)
(* JavaScript runs the handlers on one thread; a handler runs until its    *)
(* next await.  Every flow of the model therefore rests at an await: a     *)
(* store update that has been issued and not yet completed (writeQ), a     *)
(* provider request in flight, or a timer.  One action is the code that    *)
(* runs between two awaits.                                                *)
(***************************************************************************)
EXTENDS Integers, Sequences, FiniteSets, TLC

\* ---------------------------------------------------------------- bounds
\* recordings in the library
NumRecordings == 2
\* steps of the wall clock
MaxTicks == 2
\* calls of transcribe, retryTranscription, checkStatus and page loads made
\* by the user
MaxOps == 2
\* utterances in one transcript response
MaxUtterances == 2
\* timestamps up to this many whole seconds (above one hour)
MaxSeconds == 3700

\* ------------------------------------------------------- program constants
maxAttempts == 120
timeoutMs == 10 * 60 * 1000
\* one step of the model's clock, in milliseconds
TickMs == 10 * 60 * 1000

Recs == 1..NumRecordings
\* flow 0 is the onMount flow of +page.svelte, the others are the calls made
\* through the manager's public operations (each may leave a polling loop)
UiFlows == 1..MaxOps
FlowIds == 0..MaxOps
ClrId == MaxOps + 1

\* ------------------------------------------------------------------ values
NoText == "<undefined>"
NoError == << >>
NoJobId == 0
NoTime == -1
AdapterName == "AssemblyAI"

ErrResumeTimedOut == <<"Transcription", "timed out", "(10 minutes)">>
ErrPollingTimedOut == <<"Transcription polling", "timed out">>
ErrClearedTimedOut == <<"Cleared -", "timed out">>
ErrClearedByUser == <<"Cleared by user">>
ErrUploadFailed == <<"Upload failed">>
ErrTranscriptRequestFailed == <<"Transcription request failed">>
ErrApi == <<"API error">>
ErrProvider == <<"provider error">>
\* the message of the error db.updateRecording throws
ErrStore == <<"Recording with id", "not found">>

\* Recording.transcription === undefined
NoJob ==
  [status |-> "none", text |-> NoText, error |-> NoError, service |-> "",
   jobId |-> NoJobId, startedAt |-> NoTime, completedAt |-> NoTime]

InProgress == {"processing", "pending"}
Terminal == {"completed", "error"}

VARIABLES
  db,             \* IndexedDB object store: recording id -> transcription
  recs,           \* the in-memory recordings store: id -> transcription
  flows,          \* the asynchronous calls of the manager, by flow id
  writeQ,         \* recordings.update calls issued and not yet completed
  mountQ,         \* onMount: in-progress recordings still to be resumed
  clr,            \* the running clear operation
  now,            \* Date.now(), in ticks of TickMs
  nextJob,        \* next transcript id the provider hands out
  settings,       \* settings.transcription
  ops,            \* operations the user has started so far
  hist,           \* per recording: its most recent transcribe call
  adp,            \* the most recent call of an adapter method: input, result
  st,             \* the Recording Store in detail: the object store of
                  \* IndexedDB, the in-memory list, the calls in progress
  recorder,       \* the ScreenRecorder and the recorderState store
  library,        \* runAutoCleanup: the stored recordings and its call
  speech          \* the LiveSpeechRecognition and its browser recognizer

vars == <<db, recs, flows, writeQ, mountQ, clr, now, nextJob, settings, ops,
          hist, adp, st, recorder, library, speech>>

FreeFlow ==
  [pc |-> "free", rec |-> 0, snap |-> NoJob, val |-> NoJob, attempts |-> 0,
   calls |-> 0, raw |-> "", rtext |-> NoText, ui |-> FALSE]

\* the store in detail is not followed
NoStore == [disk |-> << >>, mem |-> << >>, call |-> << >>]

\* the recorder page has not been used: recorderState as createRecorderStore
\* makes it (error is 'error # null'), no MediaRecorder (media is its state),
\* no duration timer, no call of start or stop in progress
NoRecorder ==
  [isRecording |-> FALSE, isPaused |-> FALSE, duration |-> 0,
   error |-> FALSE, media |-> "null", timer |-> FALSE, pc |-> "idle"]

\* a setting that is null
Null == -1

\* runAutoCleanup has not been called: disk is the object store in key
\* order, mem the in-memory list, all what getAllRecordings returned,
\* toDelete the ids it computed, ret its return value
NoLibrary ==
  [disk |-> << >>, mem |-> << >>, all |-> << >>, toDelete |-> {},
   settings |-> [autoDeleteAfterDays |-> Null,
                 autoDeleteAfterDownload |-> FALSE, keepOnlyLastN |-> Null],
   pc |-> "idle", ret |-> 0]

\* a LiveSpeechRecognition as its constructor leaves it. recognition is the
\* state of the browser's recognizer, callback is 'onTranscriptUpdate # null',
\* timer the pending timeout of restart(); starts and updates flip with every
\* call of recognition.start() and of the callback; stopped holds from the
\* return of stop() to the next start()
NoSpeech ==
  [isRunning |-> FALSE, recognition |-> "null", callback |-> FALSE,
   timer |-> FALSE, starts |-> 0, updates |-> 0, stopped |-> FALSE]

\* no adapter method has been called
NoCall == [op |-> "none", in |-> << >>, done |-> FALSE, out |-> << >>]

IdleClr ==
  [pc |-> "idle", kind |-> "", snap |-> [r \in Recs |-> NoJob], idx |-> 0,
   val |-> NoJob, count |-> 0, written |-> {}, ret |-> -1]

\* history of the most recent transcribe call of a recording: the flow that
\* runs it (0 once its submit result is written), how far it has come, and
\* the jobId its submit returned
NoHist == [by |-> 0, phase |-> "none", id |-> NoJobId, call |-> 0]

\* ----------------------------------------------------------------- adapter
\* mapStatus without its case 'queued'
mapStatusQueuedPending(raw) ==
  CASE raw = "completed" -> "completed"
    [] raw = "error" -> "error"
    [] raw = "processing" -> "processing"
    [] OTHER -> "pending"

\* mapStatus with the default case returning 'error'
mapStatusDefaultError(raw) ==
  CASE raw = "completed" -> "completed"
    [] raw = "error" -> "error"
    [] raw \in {"queued", "processing"} -> "processing"
    [] OTHER -> "error"

\* AssemblyAIAdapter.mapStatus
mapStatus(raw) ==
  CASE raw = "completed" -> "completed"
    [] raw = "error" -> "error"
    [] raw \in {"queued", "processing"} -> "processing"
    [] OTHER -> "pending"

\* the statuses of the provider's transcript response
ProviderStatuses == {"queued", "processing", "completed", "error"}

\* the transcript the provider returns for a completed job
CompletedText == "hello"

\* the message of the TypeError fetch rejects with when the network fails
ErrNetwork == <<"Failed to fetch">>

\* a transcript response without speaker labels: fields of the record
\* reached: fetch resolved; ok: response.ok; raw, text, error,
\* speaker_labels, utterances: the fields of the JSON body
Response(raw, text, error) ==
  [reached |-> TRUE, ok |-> TRUE, raw |-> raw, text |-> text, error |-> error,
   speaker_labels |-> FALSE, utterances |-> << >>]

\* what the provider (or the network) answers to GET /transcript/{id}
PollOutcomes ==
  { Response("queued", NoText, NoError),
    Response("processing", NoText, NoError),
    Response("completed", CompletedText, NoError),
    Response("error", NoText, ErrProvider),
    Response("banana", NoText, NoError),
    [Response("", NoText, NoError) EXCEPT !.ok = FALSE] }

\* a response of a job still in progress that already carries text
PartialText == "hel"

PartialResponse == Response("processing", PartialText, NoError)

MergeOutcomes == PollOutcomes \cup {PartialResponse}

\* fetch rejects: no response at all
NetworkFailure == [Response("", NoText, NoError) EXCEPT !.reached = FALSE]

\* String(n) for a non-negative integer, as its sequence of characters
Digit(d) ==
  CASE d = 0 -> "0" [] d = 1 -> "1" [] d = 2 -> "2" [] d = 3 -> "3"
    [] d = 4 -> "4" [] d = 5 -> "5" [] d = 6 -> "6" [] d = 7 -> "7"
    [] d = 8 -> "8" [] OTHER -> "9"

RECURSIVE String(_)
String(n) ==
  IF n < 10 THEN <<Digit(n)>> ELSE Append(String(n \div 10), Digit(n % 10))

\* String.prototype.padStart(targetLength, padString) with a one-character
\* pad string
RECURSIVE padStart(_, _, _)
padStart(str, targetLength, padString) ==
  IF Len(str) >= targetLength
    THEN str
    ELSE padStart(<<padString>> \o str, targetLength, padString)

\* formatTimestamp without the zero padding
formatTimestampNoPad(ms) ==
  LET totalSeconds == ms \div 1000
      hours == totalSeconds \div 3600
      minutes == (totalSeconds % 3600) \div 60
      seconds == totalSeconds % 60 IN
  IF hours > 0
    THEN String(hours) \o <<":">> \o String(minutes) \o <<":">>
           \o String(seconds)
    ELSE String(minutes) \o <<":">> \o String(seconds)

\* AssemblyAIAdapter.formatTimestamp, for ms a non-negative integer: the
\* string it returns as its sequence of characters
formatTimestamp(ms) ==
  LET totalSeconds == ms \div 1000
      hours == totalSeconds \div 3600
      minutes == (totalSeconds % 3600) \div 60
      seconds == totalSeconds % 60 IN
  IF hours > 0
    THEN String(hours) \o <<":">> \o padStart(String(minutes), 2, "0")
           \o <<":">> \o padStart(String(seconds), 2, "0")
    ELSE String(minutes) \o <<":">> \o padStart(String(seconds), 2, "0")

\* the block of one utterance: "[start - end] Speaker X:\ntext\n"
formatUtterance(utterance) ==
  <<"[">> \o formatTimestamp(utterance.start) \o <<" - ">>
    \o formatTimestamp(utterance.end)
    \o <<"] Speaker ", utterance.speaker, ":\n", utterance.text, "\n">>

\* Array.prototype.join("\n") of the blocks
RECURSIVE join(_)
join(blocks) ==
  IF blocks = << >> THEN << >>
  ELSE IF Len(blocks) = 1 THEN Head(blocks)
  ELSE Head(blocks) \o <<"\n">> \o join(Tail(blocks))

\* AssemblyAIAdapter.formatUtterances: the blocks in the order of the array
formatUtterances(utterances) ==
  join([i \in DOMAIN utterances |-> formatUtterance(utterances[i])])

\* the try block of checkStatus: it throws (threw, with the message in
\* error) or returns the TranscriptionStatusResult
tryCheckStatus(o) ==
  IF ~o.reached
    THEN [threw |-> TRUE, status |-> "", text |-> NoText,
          error |-> ErrNetwork]
  ELSE IF ~o.ok
    THEN [threw |-> TRUE, status |-> "", text |-> NoText, error |-> ErrApi]
  ELSE [threw |-> FALSE, status |-> mapStatus(o.raw),
        text |-> IF o.speaker_labels /\ Len(o.utterances) > 0
                   THEN formatUtterances(o.utterances) ELSE o.text,
        error |-> o.error]

\* checkStatus without its catch block
checkStatusNoCatch(o) == tryCheckStatus(o)

\* AssemblyAIAdapter.checkStatus: the TranscriptionStatusResult it returns
checkStatus(o) ==
  LET t == tryCheckStatus(o) IN
  IF t.threw
    THEN [threw |-> FALSE, status |-> "error", text |-> NoText,
          error |-> t.error]
    ELSE t

\* what happens to the upload and the transcript request
SubmitOutcomes == {"ok", "upload_failed", "transcript_failed"}

\* the same with the requests that fail on the network
RemoteOutcomes == SubmitOutcomes \cup {"upload_network", "transcript_network"}

\* AssemblyAIAdapter.uploadFile: throws or returns the upload url
uploadFile(o) ==
  CASE o = "upload_network" -> [threw |-> TRUE, error |-> ErrNetwork]
    [] o = "upload_failed" -> [threw |-> TRUE, error |-> ErrUploadFailed]
    [] OTHER -> [threw |-> FALSE, error |-> NoError]

\* AssemblyAIAdapter.createTranscript: throws or returns the transcript id
createTranscript(o, id) ==
  CASE o = "transcript_network" ->
         [threw |-> TRUE, error |-> ErrNetwork, id |-> NoJobId]
    [] o = "transcript_failed" ->
         [threw |-> TRUE, error |-> ErrTranscriptRequestFailed,
          id |-> NoJobId]
    [] OTHER -> [threw |-> FALSE, error |-> NoError, id |-> id]

\* the try block of transcribe
tryTranscribe(o, id) ==
  LET thrown(e) == [threw |-> TRUE, status |-> "", text |-> NoText,
                    error |-> e, jobId |-> NoJobId] IN
  IF uploadFile(o).threw THEN thrown(uploadFile(o).error)
  ELSE IF createTranscript(o, id).threw
    THEN thrown(createTranscript(o, id).error)
  ELSE [threw |-> FALSE, status |-> "processing", text |-> NoText,
        error |-> NoError, jobId |-> createTranscript(o, id).id]

\* AssemblyAIAdapter.transcribe: the TranscriptionResult it returns
adapterTranscribe(o, id) ==
  LET t == tryTranscribe(o, id) IN
  IF t.threw
    THEN [threw |-> FALSE, status |-> "error", text |-> NoText,
          error |-> t.error, jobId |-> NoJobId]
    ELSE t

\* ----------------------------------------------------------------- manager
\* getAdapter without its test of the API key
getAdapterAnyKey ==
  /\ settings.enabled
  /\ settings.service = "assemblyai"

\* TranscriptionManager.getAdapter() !== null
getAdapter ==
  /\ settings.enabled
  /\ settings.service = "assemblyai"
  /\ settings.assemblyAIKey # ""

\* a || b on optional strings: "" and undefined are both falsy
OrText(a, b) == IF a # NoText /\ a # "" THEN a ELSE b

\* Date.now() - new Date(startedAt).getTime()
elapsed(startedAt) == (now - startedAt) * TickMs

\* a poll write that stamps completedAt whatever the status is
PollWriteStamped(snap, status) ==
  [snap EXCEPT !.status = status.status,
               !.text = OrText(status.text, snap.text),
               !.error = status.error,
               !.completedAt = now]

\* a poll write that replaces the transcription object instead of merging
PollWriteReplace(snap, status) ==
  [NoJob EXCEPT !.status = status.status,
                !.text = status.text,
                !.error = status.error,
                !.service = snap.service,
                !.completedAt = IF status.status = "completed" THEN now
                                ELSE NoTime]

\* the transcription object written by a poll (pollUntilComplete, checkStatus)
PollWrite(snap, status) ==
  [snap EXCEPT !.status = status.status,
               !.text = OrText(status.text, snap.text),
               !.error = status.error,
               !.completedAt = IF status.status = "completed" THEN now
                               ELSE NoTime]

\* { ...recording.transcription, status: 'error', error: msg }
ErrorWrite(snap, msg) == [snap EXCEPT !.status = "error", !.error = msg]

\* a first write that merges into the transcription object of the recording
ProcessingWriteMerged(recording) ==
  [recording EXCEPT !.status = "processing", !.service = AdapterName,
                    !.startedAt = now]

\* the first write of transcribe(recording): a new transcription object
ProcessingWrite(recording) ==
  [NoJob EXCEPT !.status = "processing", !.service = AdapterName,
                !.startedAt = now]

\* a second write that leaves out the error of the result
ResultWriteNoError(result) ==
  [status |-> result.status, text |-> result.text, error |-> NoError,
   service |-> AdapterName, jobId |-> result.jobId, startedAt |-> now,
   completedAt |-> IF result.status = "completed" THEN now ELSE NoTime]

\* the second write of transcribe
ResultWrite(result) ==
  [status |-> result.status, text |-> result.text, error |-> result.error,
   service |-> AdapterName, jobId |-> result.jobId, startedAt |-> now,
   completedAt |-> IF result.status = "completed" THEN now ELSE NoTime]

\* pollUntilComplete awaited by the call that starts it
LoopStartAwaited(f, r, snap) ==
  IF getAdapter /\ snap.jobId # NoJobId
    THEN [FreeFlow EXCEPT !.pc = "polling", !.rec = r, !.snap = snap,
                          !.calls = 1, !.ui = flows[f].ui]
    ELSE FreeFlow

\* pollUntilComplete up to its first await: the first checkStatus is in flight
LoopStart(f, r, snap) ==
  IF getAdapter /\ snap.jobId # NoJobId
    THEN [FreeFlow EXCEPT !.pc = "polling", !.rec = r, !.snap = snap,
                          !.calls = 1]
    ELSE FreeFlow

Init ==
  /\ db = [r \in Recs |-> NoJob]
  /\ recs = [r \in Recs |-> NoJob]
  /\ flows = [f \in FlowIds |-> FreeFlow]
  /\ writeQ = << >>
  /\ mountQ = << >>
  /\ clr = IdleClr
  /\ now = 0
  /\ nextJob = 1
  /\ settings = [enabled |-> TRUE, service |-> "assemblyai",
                 assemblyAIKey |-> "key"]
  /\ ops = 0
  /\ hist = [r \in Recs |-> NoHist]
  /\ adp = NoCall
  /\ st = NoStore
  /\ recorder = NoRecorder
  /\ library = NoLibrary
  /\ speech = NoSpeech

\* the jobs an earlier page can have left in the database: what the writes
\* of the manager store for a job started at time 0
StoredJobs ==
  LET submitted == ResultWrite(adapterTranscribe("ok", 1)) IN
  {NoJob, ProcessingWrite(NoJob), submitted}
    \cup {PollWrite(submitted, checkStatus(o)) : o \in PollOutcomes}

\* a page about to load a database that holds jobs of an earlier page
InitStored ==
  /\ now = 0
  /\ db \in [Recs -> StoredJobs]
  /\ recs = [r \in Recs |-> NoJob]
  /\ flows = [f \in FlowIds |-> FreeFlow]
  /\ writeQ = << >>
  /\ mountQ = << >>
  /\ clr = IdleClr
  /\ nextJob = 2
  /\ settings = [enabled |-> TRUE, service |-> "assemblyai",
                 assemblyAIKey |-> "key"]
  /\ ops = 0
  /\ hist = [r \in Recs |-> NoHist]
  /\ adp = NoCall
  /\ st = NoStore
  /\ recorder = NoRecorder
  /\ library = NoLibrary
  /\ speech = NoSpeech

\* the submitted jobs of an earlier page that were started one tick later
YoungJobs ==
  { [j EXCEPT !.startedAt = 1] :
      j \in {s \in StoredJobs :
               s.status = "processing" /\ s.jobId # NoJobId} }

\* a page about to load a database whose jobs differ in age
InitAged ==
  /\ now = 0
  /\ db \in [Recs -> StoredJobs \cup YoungJobs]
  /\ recs = [r \in Recs |-> NoJob]
  /\ flows = [f \in FlowIds |-> FreeFlow]
  /\ writeQ = << >>
  /\ mountQ = << >>
  /\ clr = IdleClr
  /\ nextJob = 2
  /\ settings = [enabled |-> TRUE, service |-> "assemblyai",
                 assemblyAIKey |-> "key"]
  /\ ops = 0
  /\ hist = [r \in Recs |-> NoHist]
  /\ adp = NoCall
  /\ st = NoStore
  /\ recorder = NoRecorder
  /\ library = NoLibrary
  /\ speech = NoSpeech

\* the lowest free slot for a new call
FreeSlot(f) ==
  /\ f \in UiFlows
  /\ flows[f].pc = "free"
  /\ \A g \in UiFlows : g < f => flows[g].pc # "free"

\* a new operation of the user, within the explored number of them
UserOp == ops < MaxOps /\ ops' = ops + 1

\* RecordingItem.isTranscribing of the mounted item of recording r: set from
\* the click until transcribe() has returned to the component that called it
isTranscribing(r) ==
  \E f \in UiFlows :
    /\ flows[f].rec = r
    /\ flows[f].ui
    /\ flows[f].pc \in {"w_processing", "submitting", "w_result", "w_catch",
                       "rejected"}

\* transcribe(recording) up to its first await
StartTranscribe(f, r) ==
  /\ UserOp
  /\ FreeSlot(f)
  /\ getAdapter
  /\ flows' = [flows EXCEPT ![f] =
       [FreeFlow EXCEPT !.pc = "w_processing", !.rec = r,
                        !.val = ProcessingWrite(recs[r]),
                        !.ui = TRUE]]
  /\ writeQ' = Append(writeQ, f)
  /\ hist' = [hist EXCEPT ![r] = [by |-> f, phase |-> "begun", id |-> NoJobId,
                                  call |-> ops + 1]]
  /\ UNCHANGED <<st, adp, db, recs, mountQ, clr, now, nextJob, settings,
                 recorder, library, speech>>

\* RecordingItem.handleTranscribe: the Transcribe button
Transcribe(f, r) ==
  /\ recs[r].status \in {"none", "error"}
  /\ ~isTranscribing(r)
  /\ StartTranscribe(f, r)

\* RecordingItem.handleRetranscribe: the Re-transcribe button
RetryTranscription(f, r) ==
  /\ recs[r].status = "completed"
  /\ recs[r].text \notin {NoText, ""}
  /\ ~isTranscribing(r)
  /\ StartTranscribe(f, r)

\* adapter.transcribe returns; transcribe issues its second write
SubmitReturn(f, o) ==
  /\ f \in UiFlows
  /\ flows[f].pc = "submitting"
  /\ flows' = [flows EXCEPT ![f].pc = "w_result",
                            ![f].val = ResultWrite(adapterTranscribe(o, nextJob))]
  /\ nextJob' = IF o = "ok" THEN nextJob + 1 ELSE nextJob
  /\ writeQ' = Append(writeQ, f)
  /\ hist' = IF hist[flows[f].rec].by = f
               THEN [hist EXCEPT ![flows[f].rec].id =
                                   adapterTranscribe(o, nextJob).jobId]
               ELSE hist
  /\ UNCHANGED <<st, adp, db, recs, mountQ, clr, now, settings, ops, recorder,
                 library, speech>>

\* adapter.checkStatus returns inside pollUntilComplete
PollReturn(f, o) ==
  /\ f \in FlowIds
  /\ flows[f].pc = "polling"
  /\ flows' = [flows EXCEPT ![f].pc = "w_poll", ![f].raw = o.raw,
                            ![f].rtext = checkStatus(o).text,
                            ![f].val = PollWrite(flows[f].snap, checkStatus(o))]
  /\ writeQ' = Append(writeQ, f)
  /\ UNCHANGED <<st, adp, db, recs, mountQ, clr, now, nextJob, settings, ops,
                 hist, recorder, library, speech>>

\* the loop condition as attempts <= maxAttempts
LoopWakeOneMore(f) ==
  /\ f \in FlowIds
  /\ flows[f].pc = "sleeping"
  /\ IF flows[f].attempts + 1 <= maxAttempts
       THEN /\ flows' = [flows EXCEPT ![f].pc = "polling",
                                      ![f].attempts = @ + 1,
                                      ![f].calls = @ + 1]
            /\ writeQ' = writeQ
       ELSE /\ flows' = [flows EXCEPT ![f].pc = "w_timeout",
                                      ![f].attempts = @ + 1,
                                      ![f].val = ErrorWrite(flows[f].snap,
                                                            ErrPollingTimedOut)]
            /\ writeQ' = Append(writeQ, f)
  /\ UNCHANGED <<st, adp, db, recs, mountQ, clr, now, nextJob, settings, ops,
                 hist, recorder, library, speech>>

\* the 5 second timer of pollUntilComplete fires: attempts++, next iteration
LoopWake(f) ==
  /\ f \in FlowIds
  /\ flows[f].pc = "sleeping"
  /\ IF flows[f].attempts + 1 < maxAttempts
       THEN /\ flows' = [flows EXCEPT ![f].pc = "polling",
                                      ![f].attempts = @ + 1,
                                      ![f].calls = @ + 1]
            /\ writeQ' = writeQ
       ELSE /\ flows' = [flows EXCEPT ![f].pc = "w_timeout",
                                      ![f].attempts = @ + 1,
                                      ![f].val = ErrorWrite(flows[f].snap,
                                                            ErrPollingTimedOut)]
            /\ writeQ' = Append(writeQ, f)
  /\ UNCHANGED <<st, adp, db, recs, mountQ, clr, now, nextJob, settings, ops,
                 hist, recorder, library, speech>>

Tick ==
  /\ now < MaxTicks
  /\ now' = now + 1
  /\ UNCHANGED <<st, adp, db, recs, flows, writeQ, mountQ, clr, nextJob,
                 settings, ops, hist, recorder, library, speech>>

\* ------------------------------------------------------------ page (re)load
\* the timeout test as elapsed >= timeoutMs
ExpiredInclusive(job) ==
  job.startedAt # NoTime /\ elapsed(job.startedAt) >= timeoutMs

\* elapsed > timeoutMs in resumePolling and clearTimedOutTranscriptions
Expired(job) == job.startedAt # NoTime /\ elapsed(job.startedAt) > timeoutMs

\* the guards of resumePolling without the test of the status
ResumableAnyStatus(job) ==
  /\ job.jobId # NoJobId
  /\ Expired(job) \/ getAdapter

\* the guards of resumePolling without the test of the jobId
ResumableNoJobId(job) ==
  /\ job.status \in InProgress
  /\ Expired(job) \/ getAdapter

\* resumePolling(recording) has something to await: the timeout write or a
\* polling loop; otherwise it returns at once and onMount goes on
Resumable(job) ==
  /\ job.status \in InProgress
  /\ job.jobId # NoJobId
  /\ Expired(job) \/ getAdapter

RECURSIVE MountScan(_)
MountScan(q) ==
  IF q = << >> \/ Resumable(Head(q).snap) THEN q ELSE MountScan(Tail(q))

\* onMount's for loop from its next recording up to the next await
MountFlow(q) ==
  LET q2 == MountScan(q) IN
  IF q2 = << >> THEN FreeFlow
  ELSE LET h == Head(q2) IN
       IF Expired(h.snap)
         THEN [FreeFlow EXCEPT !.pc = "w_resume", !.rec = h.rec,
                               !.snap = h.snap,
                               !.val = ErrorWrite(h.snap, ErrResumeTimedOut)]
         ELSE LoopStart(0, h.rec, h.snap)

MountRest(q) == IF MountScan(q) = << >> THEN << >> ELSE Tail(MountScan(q))

RECURSIVE InProgressFrom(_, _)
InProgressFrom(store, r) ==
  IF r > NumRecordings THEN << >>
  ELSE (IF store[r].status \in InProgress
          THEN << [rec |-> r, snap |-> store[r]] >> ELSE << >>)
       \o InProgressFrom(store, r + 1)

\* the page is torn down and loaded again: every flow of the old page is
\* gone, onMount loads the store and resumes the in-progress recordings
Reload ==
  LET q == InProgressFrom(db, 1)
      m == MountFlow(q) IN
  /\ recs' = db
  /\ flows' = [f \in FlowIds |-> IF f = 0 THEN m ELSE FreeFlow]
  /\ mountQ' = MountRest(q)
  /\ writeQ' = IF m.pc = "w_resume" THEN << 0 >> ELSE << >>
  /\ clr' = IdleClr
  /\ UserOp
  /\ hist' = [r \in Recs |-> [hist[r] EXCEPT !.by = 0]]
  /\ UNCHANGED <<st, adp, db, now, nextJob, settings, recorder, library,
                 speech>>

\* resumePolling(recording) called on its own, on the recording as the
\* in-memory store has it
ResumePolling(f, r) ==
  LET m == MountFlow(<< [rec |-> r, snap |-> recs[r]] >>) IN
  /\ UserOp
  /\ FreeSlot(f)
  /\ r \in Recs
  /\ recs[r] # NoJob
  /\ flows' = [flows EXCEPT ![f] = m]
  /\ writeQ' = IF m.pc = "w_resume" THEN Append(writeQ, f) ELSE writeQ
  /\ hist' = [hist EXCEPT ![r] = [by |-> 0, phase |-> "resumed",
                                  id |-> recs[r].jobId, call |-> ops + 1]]
  /\ UNCHANGED <<st, adp, db, recs, mountQ, clr, now, nextJob, settings,
                 recorder, library, speech>>

\* ------------------------------------------------------------------- clear
ClearMsg(kind) == IF kind = "all" THEN ErrClearedByUser ELSE ErrClearedTimedOut

\* the if without its test for 'pending'
ClearMatchProcessingOnly(kind, job) ==
  /\ job.status = "processing"
  /\ kind = "timedout" => Expired(job)

\* the if of clearTimedOutTranscriptions without its test of elapsed
ClearMatchAnyAge(kind, job) == job.status \in InProgress

\* the if of the for loop body of the two clear operations
ClearMatch(kind, job) ==
  /\ job.status \in InProgress
  /\ kind = "timedout" => Expired(job)

\* the next recording of the snapshot, from index r, that gets an update
RECURSIVE ClearScan(_, _, _)
ClearScan(kind, snap, r) ==
  IF r > NumRecordings THEN 0
  ELSE IF ClearMatch(kind, snap[r]) THEN r
  ELSE ClearScan(kind, snap, r + 1)

\* the clear operation from index r up to its next await, or to its return
ClearNext(c, r) ==
  LET j == ClearScan(c.kind, c.snap, r) IN
  IF j = 0
    THEN [c EXCEPT !.pc = "idle", !.idx = 0, !.val = NoJob, !.written = {},
                   !.snap = [x \in Recs |-> NoJob], !.ret = c.count]
    ELSE [c EXCEPT !.pc = "w_clear", !.idx = j,
                   !.val = ErrorWrite(c.snap[j], ClearMsg(c.kind))]

StartClear(kind) ==
  /\ clr.pc = "idle"
  /\ clr' = ClearNext([IdleClr EXCEPT !.kind = kind, !.snap = recs], 1)
  /\ writeQ' = IF clr'.pc = "w_clear" THEN Append(writeQ, ClrId) ELSE writeQ
  /\ UNCHANGED <<st, adp, db, recs, flows, mountQ, now, nextJob, settings, ops,
                 hist, recorder, library, speech>>

\* the Settings component is shown instead of the Library: no RecordingItem
\* component of the Library is mounted
SettingsTab == \A f \in UiFlows : ~flows[f].ui

\* Settings.handleClearInProgressTranscriptions
ClearAllInProgress ==
  /\ SettingsTab
  /\ StartClear("all")

\* clearTimedOutTranscriptions()
ClearTimedOut == StartClear("timedout")

\* ------------------------------------------------------------- checkStatus
\* checkStatus without its test of the jobId
CheckStatusAnyJob(f, r) ==
  /\ UserOp
  /\ FreeSlot(f)
  /\ getAdapter
  /\ recs[r] # NoJob
  /\ flows' = [flows EXCEPT ![f] =
       [FreeFlow EXCEPT !.pc = "checking", !.rec = r, !.snap = recs[r],
                        !.calls = 1]]
  /\ UNCHANGED <<st, adp, db, recs, writeQ, mountQ, clr, now, nextJob,
                 settings, hist, recorder, library, speech>>

\* checkStatus(recording) up to its await of adapter.checkStatus
CheckStatus(f, r) ==
  /\ UserOp
  /\ FreeSlot(f)
  /\ getAdapter
  /\ recs[r].jobId # NoJobId
  /\ flows' = [flows EXCEPT ![f] =
       [FreeFlow EXCEPT !.pc = "checking", !.rec = r, !.snap = recs[r],
                        !.calls = 1]]
  /\ UNCHANGED <<st, adp, db, recs, writeQ, mountQ, clr, now, nextJob,
                 settings, hist, recorder, library, speech>>

CheckReturn(f, o) ==
  /\ f \in UiFlows
  /\ flows[f].pc = "checking"
  /\ flows' = [flows EXCEPT ![f].pc = "w_check", ![f].raw = o.raw,
                            ![f].rtext = checkStatus(o).text,
                            ![f].val = PollWrite(flows[f].snap, checkStatus(o))]
  /\ writeQ' = Append(writeQ, f)
  /\ UNCHANGED <<st, adp, db, recs, mountQ, clr, now, nextJob, settings, ops,
                 hist, recorder, library, speech>>

\* ------------------------------------------------------------ store update
\* recordings.update(id, { transcription }): db.updateRecording then the
\* in-memory map; the transcription object is replaced as a whole
StoreUpdate(r, val) ==
  /\ db' = [db EXCEPT ![r] = val]
  /\ recs' = [recs EXCEPT ![r] = val]

\* transcribe calling pollUntilComplete after every result write
AfterWriteAlwaysLoop(f) ==
  LET fl == flows[f] IN
  CASE fl.pc = "w_processing" -> [fl EXCEPT !.pc = "submitting", !.val = NoJob]
    [] fl.pc = "w_result" ->
         [FreeFlow EXCEPT !.pc = "polling", !.rec = fl.rec, !.snap = fl.val,
                          !.calls = 1]
    [] fl.pc = "w_poll" ->
         IF fl.val.status \in Terminal
           THEN (IF f = 0 THEN MountFlow(mountQ) ELSE FreeFlow)
           ELSE [fl EXCEPT !.pc = "sleeping", !.val = NoJob, !.raw = "",
                           !.rtext = NoText]
    [] OTHER -> IF f = 0 THEN MountFlow(mountQ) ELSE FreeFlow

\* a loop without its return after a completed or error result
AfterWriteNoStop(f) ==
  LET fl == flows[f] IN
  CASE fl.pc = "w_processing" -> [fl EXCEPT !.pc = "submitting", !.val = NoJob]
    [] fl.pc = "w_result" ->
         IF fl.val.status = "processing" /\ fl.val.jobId # NoJobId
           THEN LoopStart(f, fl.rec, fl.val)
           ELSE FreeFlow
    [] fl.pc = "w_poll" ->
         [fl EXCEPT !.pc = "sleeping", !.val = NoJob, !.raw = "",
                    !.rtext = NoText]
    [] OTHER -> IF f = 0 THEN MountFlow(mountQ) ELSE FreeFlow

\* the flow after its awaited update has completed, up to its next await
AfterWrite(f) ==
  LET fl == flows[f] IN
  CASE fl.pc = "w_processing" -> [fl EXCEPT !.pc = "submitting", !.val = NoJob]
    [] fl.pc = "w_result" ->
         IF fl.val.status = "processing" /\ fl.val.jobId # NoJobId
           THEN LoopStart(f, fl.rec, fl.val)
           ELSE FreeFlow
    [] fl.pc = "w_poll" ->
         IF fl.val.status \in Terminal
           THEN (IF f = 0 THEN MountFlow(mountQ) ELSE FreeFlow)
           ELSE [fl EXCEPT !.pc = "sleeping", !.val = NoJob, !.raw = "",
                           !.rtext = NoText]
    [] OTHER -> IF f = 0 THEN MountFlow(mountQ) ELSE FreeFlow

\* the oldest pending update completes and its caller runs on
Commit ==
  /\ writeQ # << >>
  /\ LET w == Head(writeQ) IN
     IF w = ClrId
       THEN /\ StoreUpdate(clr.idx, clr.val)
            /\ clr' = ClearNext([clr EXCEPT !.count = @ + 1,
                                            !.written = @ \cup {clr.idx}],
                                clr.idx + 1)
            /\ writeQ' = IF clr'.pc = "w_clear"
                           THEN Append(Tail(writeQ), ClrId) ELSE Tail(writeQ)
            /\ UNCHANGED <<st, adp, flows, mountQ, hist>>
       ELSE LET fl == flows[w]
                nf == AfterWrite(w)
                mountGoesOn == w = 0 /\ (fl.pc # "w_poll" \/ fl.val.status \in Terminal) IN
            /\ StoreUpdate(fl.rec, fl.val)
            /\ flows' = [flows EXCEPT ![w] = nf]
            /\ mountQ' = IF mountGoesOn THEN MountRest(mountQ) ELSE mountQ
            /\ writeQ' = IF nf.pc = "w_resume"
                           THEN Append(Tail(writeQ), w) ELSE Tail(writeQ)
            /\ hist' = IF fl.pc = "w_result" /\ hist[fl.rec].by = w
                         THEN [hist EXCEPT ![fl.rec].by = 0,
                                           ![fl.rec].phase =
                                               IF fl.val.jobId # NoJobId
                                                 THEN "submitted" ELSE "failed"]
                         ELSE hist
            /\ clr' = clr
  /\ UNCHANGED <<st, adp, now, nextJob, settings, ops, recorder, library,
                 speech>>

\* the catch block of transcribe: a new transcription object
CatchWrite(msg) ==
  [NoJob EXCEPT !.status = "error", !.error = msg, !.service = AdapterName]

\* the flow after its awaited update has thrown: the catch block around it
\* issues the error update, logs, or there is none and the call rejects
AfterThrow(f) ==
  LET fl == flows[f] IN
  CASE fl.pc = "w_poll" ->
         [fl EXCEPT !.pc = "w_catch", !.val = ErrorWrite(fl.snap, ErrStore)]
    [] fl.pc = "w_result" ->
         [fl EXCEPT !.pc = "w_catch", !.val = CatchWrite(ErrStore)]
    [] fl.pc = "w_check" -> FreeFlow
    [] OTHER -> [fl EXCEPT !.pc = "rejected", !.val = NoJob]

\* db.updateRecording throws for the oldest pending update of a call (the
\* recording is not found, or the get or put request fails): nothing is
\* stored and the caller's await throws
UpdateThrows ==
  /\ writeQ # << >>
  /\ Head(writeQ) \in FlowIds
  /\ LET w == Head(writeQ)
         nf == AfterThrow(w) IN
     /\ flows' = [flows EXCEPT ![w] = nf]
     /\ writeQ' = IF nf.pc = "w_catch"
                    THEN Append(Tail(writeQ), w) ELSE Tail(writeQ)
     /\ mountQ' = IF w = 0 /\ nf.pc = "rejected" THEN << >> ELSE mountQ
  /\ UNCHANGED <<st, adp, db, recs, clr, now, nextJob, settings, ops, hist,
                 recorder, library, speech>>

\* ---------------------------------------------------- the store in detail
\* a Recording as recordings.add stores it, by the fields updated later
NewRecording ==
  [transcription |-> "none", isDownloaded |-> FALSE, duration |-> 0]

\* { ...recording, ...updates }
Merge(recording, updates) ==
  [k \in DOMAIN recording |->
     IF k \in DOMAIN updates THEN updates[k] ELSE recording[k]]

\* the code that calls the store: a polling loop of the manager and the
\* handlers of a RecordingItem
StoreCallers == {"loop", "ui"}

\* the updates of a polling loop and of handleDownload, handleVideoMetadata
LoopUpdates == {[transcription |-> "processing"],
                [transcription |-> "completed"]}

UiUpdates == {[isDownloaded |-> TRUE], [duration |-> 5]}

IdleCall == [pc |-> "idle", id |-> 0, updates |-> << >>,
             read |-> NewRecording]

\* the library as recordings.load() finds it: IndexedDB and the list agree
Loaded(ids) ==
  [disk |-> [k \in ids |-> NewRecording],
   mem |-> [k \in ids |-> NewRecording],
   call |-> [c \in StoreCallers |-> IdleCall]]

CallerFree(c) == st.call[c].pc \in {"idle", "threw"}

\* recordings.update(id, updates) is called: db.updateRecording issues its
\* db.get
StoreCallUpdate(c, id, updates) ==
  /\ CallerFree(c)
  /\ id \in Recs
  /\ IF c = "loop"
       THEN updates \in LoopUpdates
       ELSE /\ updates \in UiUpdates
            /\ id \in DOMAIN st.mem
            /\ "duration" \in DOMAIN updates => st.mem[id].duration = 0
  /\ st' = [st EXCEPT !.call[c] = [IdleCall EXCEPT !.pc = "get", !.id = id,
                                                    !.updates = updates]]
  /\ UNCHANGED <<adp, db, recs, flows, writeQ, mountQ, clr, now, nextJob,
                 settings, ops, hist, recorder, library, speech>>

\* updateRecording without its test of the record it has read
updateRecordingGetUnchecked(c) ==
  /\ st.call[c].pc = "get"
  /\ st' = [st EXCEPT !.call[c].pc = "put",
                      !.call[c].read =
                          IF st.call[c].id \in DOMAIN st.disk
                            THEN st.disk[st.call[c].id] ELSE NewRecording]
  /\ UNCHANGED <<adp, db, recs, flows, writeQ, mountQ, clr, now, nextJob,
                 settings, ops, hist, recorder, library, speech>>

\* db.get of updateRecording completes: the record is read, or it is not
\* there and updateRecording throws, and so does recordings.update
updateRecordingGet(c) ==
  /\ st.call[c].pc = "get"
  /\ st' = IF st.call[c].id \in DOMAIN st.disk
             THEN [st EXCEPT !.call[c].pc = "put",
                             !.call[c].read = st.disk[st.call[c].id]]
             ELSE [st EXCEPT !.call[c].pc = "threw"]
  /\ UNCHANGED <<adp, db, recs, flows, writeQ, mountQ, clr, now, nextJob,
                 settings, ops, hist, recorder, library, speech>>

\* db.put of updateRecording completes: { ...recording, ...updates } of the
\* record that was read is stored under its id
updateRecordingPut(c) ==
  LET cl == st.call[c] IN
  /\ cl.pc = "put"
  /\ st' = [st EXCEPT
              !.disk = [k \in DOMAIN st.disk \cup {cl.id} |->
                          IF k = cl.id THEN Merge(cl.read, cl.updates)
                          ELSE st.disk[k]],
              !.call[c].pc = "mem"]
  /\ UNCHANGED <<adp, db, recs, flows, writeQ, mountQ, clr, now, nextJob,
                 settings, ops, hist, recorder, library, speech>>

\* recordings.update after its await: the list is mapped, the updates are
\* merged into the recording with the id
StoreMemUpdate(c) ==
  LET cl == st.call[c] IN
  /\ cl.pc = "mem"
  /\ st' = [st EXCEPT
              !.mem = [k \in DOMAIN st.mem |->
                         IF k = cl.id THEN Merge(st.mem[k], cl.updates)
                         ELSE st.mem[k]],
              !.call[c] = IdleCall]
  /\ UNCHANGED <<adp, db, recs, flows, writeQ, mountQ, clr, now, nextJob,
                 settings, ops, hist, recorder, library, speech>>

\* handleDelete: recordings.delete(id) is called
StoreCallDelete(id) ==
  /\ CallerFree("ui")
  /\ id \in DOMAIN st.mem
  /\ st' = [st EXCEPT !.call["ui"] = [IdleCall EXCEPT !.pc = "del",
                                                       !.id = id]]
  /\ UNCHANGED <<adp, db, recs, flows, writeQ, mountQ, clr, now, nextJob,
                 settings, ops, hist, recorder, library, speech>>

\* db.deleteRecording completes
deleteRecording ==
  LET cl == st.call["ui"] IN
  /\ cl.pc = "del"
  /\ st' = [st EXCEPT
              !.disk = [k \in DOMAIN st.disk \ {cl.id} |-> st.disk[k]],
              !.call["ui"].pc = "del_mem"]
  /\ UNCHANGED <<adp, db, recs, flows, writeQ, mountQ, clr, now, nextJob,
                 settings, ops, hist, recorder, library, speech>>

\* recordings.delete after its await: the list is filtered
StoreMemDelete ==
  LET cl == st.call["ui"] IN
  /\ cl.pc = "del_mem"
  /\ st' = [st EXCEPT
              !.mem = [k \in DOMAIN st.mem \ {cl.id} |-> st.mem[k]],
              !.call["ui"] = IdleCall]
  /\ UNCHANGED <<adp, db, recs, flows, writeQ, mountQ, clr, now, nextJob,
                 settings, ops, hist, recorder, library, speech>>

\* ---------------------------------------------------------------------- UI
\* +page.svelte handleTabChange to 'settings' ({#if activeTab === 'home'}
\* destroys the RecordingItem components and their isTranscribing), or a
\* change of the Library filter that takes the item out of the list
UnmountItems ==
  /\ \E f \in UiFlows : flows[f].ui
  /\ flows' = [f \in FlowIds |-> [flows[f] EXCEPT !.ui = FALSE]]
  /\ UNCHANGED <<st, adp, db, recs, writeQ, mountQ, clr, now, nextJob,
                 settings, ops, hist, recorder, library, speech>>

SettingsValues ==
  [enabled : BOOLEAN, service : {"assemblyai", "other"},
   assemblyAIKey : {"", "key"}]

\* Settings: the transcription section of the settings form
ChangeSettings(s) ==
  /\ SettingsTab
  /\ s \in SettingsValues
  /\ s # settings
  /\ settings' = s
  /\ UNCHANGED <<st, adp, db, recs, flows, writeQ, mountQ, clr, now, nextJob,
                 ops, hist, recorder, library, speech>>

\* transcribe(recording) when getAdapter() returns null: logs and returns
TranscribeUnavailable(r) ==
  /\ UserOp
  /\ r \in Recs
  /\ ~getAdapter
  /\ UNCHANGED <<st, adp, db, recs, flows, writeQ, mountQ, clr, now, nextJob,
                 settings, hist, recorder, library, speech>>

\* checkStatus(recording) when getAdapter() returns null or the recording
\* has no jobId: logs and returns
CheckStatusUnavailable(r) ==
  /\ UserOp
  /\ r \in Recs
  /\ ~getAdapter \/ recs[r].jobId = NoJobId
  /\ UNCHANGED <<st, adp, db, recs, flows, writeQ, mountQ, clr, now, nextJob,
                 settings, hist, recorder, library, speech>>

\* checkStatus on the one recording the page lifetime works on
FocusCheck(f, r) ==
  /\ \A r2 \in Recs : r <= r2
  /\ CheckStatus(f, r)

FocusCheckUnavailable(r) ==
  /\ \A r2 \in Recs : r <= r2
  /\ CheckStatusUnavailable(r)

\* the first call of transcribe on the page
FirstTranscribe(f, r) ==
  /\ ops = 0
  /\ Transcribe(f, r)

\* resumePolling on the one recording the page lifetime works on
FocusResume(f, r) ==
  /\ \A r2 \in Recs : r <= r2
  /\ ResumePolling(f, r)

\* Transcribe on the one recording the page lifetime works on
FocusTranscribe(f, r) ==
  /\ \A r2 \in Recs : r <= r2
  /\ Transcribe(f, r)

\* one page lifetime, the jobs of one recording: the calls the UI and the
\* manager's interface allow, in every interleaving; a polling loop is
\* followed through its first iteration
Next ==
  \/ \E f \in UiFlows, r \in Recs : FocusTranscribe(f, r)
  \/ \E f \in UiFlows, r \in Recs : RetryTranscription(f, r)
  \/ \E f \in UiFlows, o \in SubmitOutcomes : SubmitReturn(f, o)
  \/ \E f \in FlowIds, o \in PollOutcomes : PollReturn(f, o)
  \/ \E f \in UiFlows, r \in Recs : CheckStatus(f, r)
  \/ \E f \in UiFlows, o \in PollOutcomes : CheckReturn(f, o)
  \/ Commit
  \/ ClearAllInProgress
  \/ UnmountItems

Spec == Init /\ [][Next]_vars

\* a page opened on a database that holds jobs of an earlier page: the clear
\* operation of the Settings tab next to the loops onMount resumes
NextClear ==
  \/ Reload
  \/ \E f \in FlowIds, o \in PollOutcomes : PollReturn(f, o)
  \/ Commit
  \/ ClearAllInProgress

SpecClear == InitStored /\ [][NextClear]_vars

\* page loads and the wall clock: onMount on jobs left by an earlier page,
\* and the clear operation for jobs that have timed out
NextResume ==
  \/ Reload
  \/ Tick
  \/ ClearTimedOut
  \/ \E f \in FlowIds, o \in PollOutcomes : PollReturn(f, o)
  \/ Commit

SpecResume == InitStored /\ [][NextResume]_vars

\* calls of resumePolling on one recording of a loaded page, next to the
\* loops onMount resumed
NextResumeCall ==
  \/ Reload
  \/ \E f \in UiFlows, r \in Recs : FocusResume(f, r)
  \/ \E f \in FlowIds, o \in PollOutcomes : PollReturn(f, o)
  \/ Commit

SpecResumeCall == InitStored /\ [][NextResumeCall]_vars

\* calls of checkStatus on one recording, with and without an adapter and
\* a jobId, next to a call of transcribe and its polling loop
NextCheck ==
  \/ \E f \in UiFlows, r \in Recs : FirstTranscribe(f, r)
  \/ \E f \in UiFlows, o \in SubmitOutcomes : SubmitReturn(f, o)
  \/ \E s \in SettingsValues : ChangeSettings(s)
  \/ \E f \in UiFlows, r \in Recs : FocusCheck(f, r)
  \/ \E r \in Recs : FocusCheckUnavailable(r)
  \/ \E f \in UiFlows, o \in PollOutcomes : CheckReturn(f, o)
  \/ \E f \in FlowIds, o \in PollOutcomes : PollReturn(f, o)
  \/ Commit

SpecCheck == Init /\ [][NextCheck]_vars

\* clearTimedOutTranscriptions on a database whose jobs differ in age, next
\* to the loops onMount resumes
NextTimedOut ==
  \/ Reload
  \/ Tick
  \/ ClearTimedOut
  \/ \E f \in FlowIds, o \in PollOutcomes : PollReturn(f, o)
  \/ Commit

SpecTimedOut == InitAged /\ [][NextTimedOut]_vars

\* the store on its own: a library that has been loaded, the updates of a
\* polling loop and the handlers of the recording items
InitStore ==
  /\ db = [r \in Recs |-> NoJob]
  /\ recs = [r \in Recs |-> NoJob]
  /\ flows = [f \in FlowIds |-> FreeFlow]
  /\ writeQ = << >>
  /\ mountQ = << >>
  /\ clr = IdleClr
  /\ now = 0
  /\ nextJob = 1
  /\ settings = [enabled |-> TRUE, service |-> "assemblyai",
                 assemblyAIKey |-> "key"]
  /\ ops = 0
  /\ hist = [r \in Recs |-> NoHist]
  /\ adp = NoCall
  /\ st \in {Loaded(ids) : ids \in SUBSET Recs}
  /\ recorder = NoRecorder
  /\ library = NoLibrary
  /\ speech = NoSpeech

\* the recording whose polling loop and whose item are followed
FocusRecs == {r \in Recs : \A r2 \in Recs : r <= r2}

NextStore ==
  \/ \E c \in StoreCallers, id \in FocusRecs,
        u \in LoopUpdates \cup UiUpdates : StoreCallUpdate(c, id, u)
  \/ \E c \in StoreCallers : updateRecordingGet(c)
  \/ \E c \in StoreCallers : updateRecordingPut(c)
  \/ \E c \in StoreCallers : StoreMemUpdate(c)
  \/ \E id \in FocusRecs : StoreCallDelete(id)
  \/ deleteRecording
  \/ StoreMemDelete

SpecStore == InitStore /\ [][NextStore]_vars

\* ------------------------------------------------- the adapter on its own
\* utterances of a response: start and end in milliseconds
UtteranceStarts == {0, 5000, 65000}

Utterances ==
  { [speaker |-> "A", text |-> "hi", start |-> ms, end |-> ms + 4000] :
      ms \in UtteranceStarts }

\* the utterances array of a response, in every order the provider can send
UtteranceArrays == UNION { [1..n -> Utterances] : n \in 0..MaxUtterances }

UtteranceResponses ==
  { [Response("completed", CompletedText, NoError)
       EXCEPT !.speaker_labels = l, !.utterances = us] :
      l \in BOOLEAN, us \in UtteranceArrays }

\* every answer to GET /transcript/{id}
StatusResponses ==
  MergeOutcomes \cup {NetworkFailure} \cup UtteranceResponses

\* values of the provider's status field, known and unknown
RawStatuses == ProviderStatuses \cup {"banana", "", "COMPLETED", "failed"}

\* millisecond values: every whole second up to MaxSeconds with and without
\* a fraction, and some of many hours
TimestampInputs ==
  { sec * 1000 + frac : sec \in 0..MaxSeconds, frac \in {0, 999} }
    \cup {35999999, 36000000, 86399000, 360000000}

\* a call of an adapter method with its input, before it has run
Call(op, in) == [op |-> op, in |-> in, done |-> FALSE, out |-> << >>]

\* one call of one adapter method: every method with every input
InitAdapter ==
  /\ db = [r \in Recs |-> NoJob]
  /\ recs = [r \in Recs |-> NoJob]
  /\ flows = [f \in FlowIds |-> FreeFlow]
  /\ writeQ = << >>
  /\ mountQ = << >>
  /\ clr = IdleClr
  /\ now = 0
  /\ nextJob = 1
  /\ settings = [enabled |-> TRUE, service |-> "assemblyai",
                 assemblyAIKey |-> "key"]
  /\ ops = 0
  /\ hist = [r \in Recs |-> NoHist]
  /\ adp \in { Call("transcribe", o) : o \in RemoteOutcomes }
             \cup { Call("checkStatus", o) : o \in StatusResponses }
             \cup { Call("mapStatus", raw) : raw \in RawStatuses }
             \cup { Call("formatTimestamp", ms) : ms \in TimestampInputs }
  /\ st = NoStore
  /\ recorder = NoRecorder
  /\ library = NoLibrary
  /\ speech = NoSpeech

\* the call returns out
Returns(out) ==
  /\ ~adp.done
  /\ adp' = [adp EXCEPT !.done = TRUE, !.out = out]
  /\ UNCHANGED <<st, db, recs, flows, writeQ, mountQ, clr, now, nextJob,
                 settings, ops, hist, recorder, library, speech>>

\* adapter.transcribe(blob, options) with the remote calls going as adp.in
CallTranscribe ==
  /\ adp.op = "transcribe"
  /\ Returns(adapterTranscribe(adp.in, nextJob))

\* adapter.checkStatus(jobId) with the answer adp.in
CallCheckStatus ==
  /\ adp.op = "checkStatus"
  /\ Returns(checkStatus(adp.in))

\* this.mapStatus(data.status)
CallMapStatus ==
  /\ adp.op = "mapStatus"
  /\ Returns(mapStatus(adp.in))

\* this.formatTimestamp(ms)
CallFormatTimestamp ==
  /\ adp.op = "formatTimestamp"
  /\ Returns(formatTimestamp(adp.in))

\* ------------------------------------------------------------ auto cleanup
\* the days on which recordings were created, and today
CreatedDays == 0..2
Today == 2

\* the largest library the cleanup is run on
MaxLibrary == NumRecordings + 1

\* the object stores: recordings in key order, the id is the key
Libraries ==
  UNION { { [i \in 1..n |-> [id |-> i, createdAt |-> f[i][1],
                             isDownloaded |-> f[i][2]]] :
              f \in [1..n -> CreatedDays \X BOOLEAN] } :
          n \in 0..MaxLibrary }

\* settings.storage
StorageSettings ==
  [autoDeleteAfterDays : {Null, 0, 1, 2}, autoDeleteAfterDownload : BOOLEAN,
   keepOnlyLastN : {Null, 0, 1, 2}]

\* Array.prototype.sort with (a, b) => b.createdAt - a.createdAt: stable,
\* the most recently created first
RECURSIVE sortByCreatedAtDesc(_)
sortByCreatedAtDesc(seq) ==
  IF seq = << >> THEN << >>
  ELSE LET rest == sortByCreatedAtDesc(Tail(seq))
           x == Head(seq)
           k == Cardinality({i \in DOMAIN rest :
                               rest[i].createdAt > x.createdAt}) IN
       SubSeq(rest, 1, k) \o << x >> \o SubSeq(rest, k + 1, Len(rest))

\* db.getAllRecordings()
getAllRecordings(disk) == sortByCreatedAtDesc(disk)

\* array.slice(n)
slice(seq, n) == SubSeq(seq, n + 1, Len(seq))

\* recordings.filter(r => !ids.includes(r.id))
RECURSIVE filterOut(_, _)
filterOut(seq, ids) ==
  IF seq = << >> THEN << >>
  ELSE (IF Head(seq).id \in ids THEN << >> ELSE << Head(seq) >>)
         \o filterOut(Tail(seq), ids)

\* the age rule with createdAt <= cutoffDate
getRecordingsToDeleteIdsInclusive(allRecordings, storage) ==
  LET byAge == IF storage.autoDeleteAfterDays # Null
                    /\ storage.autoDeleteAfterDays > 0
                 THEN {r \in {allRecordings[i] : i \in DOMAIN allRecordings} :
                         r.createdAt <= Today - storage.autoDeleteAfterDays}
                 ELSE {}
      byDownload == IF storage.autoDeleteAfterDownload
                      THEN {r \in {allRecordings[i] :
                                     i \in DOMAIN allRecordings} :
                              r.isDownloaded}
                      ELSE {}
      byCount == IF storage.keepOnlyLastN # Null /\ storage.keepOnlyLastN > 0
                   THEN LET rest == slice(sortByCreatedAtDesc(allRecordings),
                                          storage.keepOnlyLastN) IN
                        {rest[i] : i \in DOMAIN rest}
                   ELSE {} IN
  {r.id : r \in byAge \cup byDownload \cup byCount}

\* getRecordingsToDeleteIds(allRecordings, settings)
getRecordingsToDeleteIds(allRecordings, storage) ==
  LET byAge == IF storage.autoDeleteAfterDays # Null
                    /\ storage.autoDeleteAfterDays > 0
                 THEN {r \in {allRecordings[i] : i \in DOMAIN allRecordings} :
                         r.createdAt < Today - storage.autoDeleteAfterDays}
                 ELSE {}
      byDownload == IF storage.autoDeleteAfterDownload
                      THEN {r \in {allRecordings[i] :
                                     i \in DOMAIN allRecordings} :
                              r.isDownloaded}
                      ELSE {}
      byCount == IF storage.keepOnlyLastN # Null /\ storage.keepOnlyLastN > 0
                   THEN LET rest == slice(sortByCreatedAtDesc(allRecordings),
                                          storage.keepOnlyLastN) IN
                        {rest[i] : i \in DOMAIN rest}
                   ELSE {} IN
  {r.id : r \in byAge \cup byDownload \cup byCount}

\* a loaded page before runAutoCleanup(storageSettings) is called
InitCleanup ==
  /\ db = [r \in Recs |-> NoJob]
  /\ recs = [r \in Recs |-> NoJob]
  /\ flows = [f \in FlowIds |-> FreeFlow]
  /\ writeQ = << >>
  /\ mountQ = << >>
  /\ clr = IdleClr
  /\ now = 0
  /\ nextJob = 1
  /\ settings = [enabled |-> TRUE, service |-> "assemblyai",
                 assemblyAIKey |-> "key"]
  /\ ops = 0
  /\ hist = [r \in Recs |-> NoHist]
  /\ adp = NoCall
  /\ st = NoStore
  /\ recorder = NoRecorder
  /\ speech = NoSpeech
  /\ library \in { [NoLibrary EXCEPT !.disk = l,
                                      !.mem = getAllRecordings(l),
                                      !.settings = s] :
                      l \in Libraries, s \in StorageSettings }

CleanupStep(l) ==
  /\ library' = l
  /\ UNCHANGED <<db, recs, flows, writeQ, mountQ, clr, now, nextJob, settings,
                 ops, hist, adp, st, recorder, speech>>

\* runAutoCleanup is called: db.getAllRecordings() is awaited
runAutoCleanup ==
  /\ library.pc = "idle"
  /\ CleanupStep([library EXCEPT !.pc = "getAll"])

\* getAllRecordings has returned: the ids are computed and, if there are
\* any, recordings.deleteMultiple is called; else the call returns 0
CleanupGetAll ==
  LET all == getAllRecordings(library.disk)
      toDelete == getRecordingsToDeleteIds(all, library.settings) IN
  /\ library.pc = "getAll"
  /\ CleanupStep([library EXCEPT !.all = all, !.toDelete = toDelete,
                                  !.pc = IF toDelete # {} THEN "deleting"
                                         ELSE "returned",
                                  !.ret = Cardinality(toDelete)])

\* db.deleteRecordings(ids): one transaction deletes the ids
deleteRecordings ==
  /\ library.pc = "deleting"
  /\ CleanupStep([library EXCEPT !.disk = filterOut(@, library.toDelete),
                                  !.pc = "mem"])

\* recordings.deleteMultiple after its await, and the return of
\* runAutoCleanup
deleteMultiple ==
  /\ library.pc = "mem"
  /\ CleanupStep([library EXCEPT !.mem = filterOut(@, library.toDelete),
                                  !.pc = "returned"])

NextCleanup ==
  \/ runAutoCleanup
  \/ CleanupGetAll
  \/ deleteRecordings
  \/ deleteMultiple

SpecCleanup == InitCleanup /\ [][NextCleanup]_vars

\* ------------------------------------------------------- the recorder page
\* recorderState.setError(error) with an error that is not null
setError(state) == [state EXCEPT !.error = TRUE, !.isRecording = FALSE]

\* ScreenRecorder.cleanup()
cleanup(state) == [state EXCEPT !.timer = FALSE, !.media = "null"]

\* LiveSpeechRecognition.stop()
speechStop(sp) ==
  IF sp.recognition # "null" /\ sp.isRunning
    THEN [sp EXCEPT !.isRunning = FALSE, !.callback = FALSE,
                    !.stopped = TRUE,
                    !.recognition = IF @ = "active" THEN "stopping" ELSE @]
    ELSE [sp EXCEPT !.stopped = TRUE]

\* LiveSpeechRecognition.start(language, onUpdate, audioTrack)
speechStart(sp) ==
  IF sp.isRunning THEN sp
  ELSE [sp EXCEPT !.isRunning = TRUE, !.callback = TRUE,
                  !.recognition = "active", !.starts = 1 - @,
                  !.stopped = FALSE]

RecorderStep(r, sp) ==
  /\ recorder' = r
  /\ speech' = sp
  /\ UNCHANGED <<db, recs, flows, writeQ, mountQ, clr, now, nextJob, settings,
                 ops, hist, adp, st, library>>

\* Recorder.startRecording up to the await in recorder.start: the browser
\* asks for the screen
ClickStart ==
  /\ ~recorder.isRecording
  /\ recorder.pc = "idle"
  /\ RecorderStep([recorder EXCEPT !.pc = "picking"], speech)

\* the stream is there: ScreenRecorder.start goes on to
\* recorderState.startRecording(), and startRecording starts the live
\* transcription when the settings enable it
StreamGranted(live) ==
  /\ recorder.pc = "picking"
  /\ RecorderStep([recorder EXCEPT !.pc = "idle", !.media = "recording",
                                   !.timer = TRUE, !.isRecording = TRUE,
                                   !.isPaused = FALSE, !.duration = 0,
                                   !.error = FALSE],
                  IF live THEN speechStart(speech) ELSE speech)

\* getDisplayMedia rejects: the catch block of ScreenRecorder.start
StreamDenied ==
  /\ recorder.pc = "picking"
  /\ RecorderStep([cleanup(setError(recorder)) EXCEPT !.pc = "idle"], speech)

\* the interval of startDurationTimer: recorderState.updateDuration
DurationTimer ==
  /\ recorder.timer
  /\ recorder.duration < MaxTicks
  /\ RecorderStep([recorder EXCEPT !.duration = @ + 1], speech)

\* Pause button: ScreenRecorder.pause()
ClickPause ==
  /\ recorder.isRecording
  /\ ~recorder.isPaused
  /\ RecorderStep(IF recorder.media = "recording"
                    THEN [recorder EXCEPT !.media = "paused",
                                          !.timer = FALSE, !.isPaused = TRUE]
                    ELSE recorder,
                  speech)

\* Resume button: ScreenRecorder.resume()
ClickResume ==
  /\ recorder.isRecording
  /\ recorder.isPaused
  /\ RecorderStep(IF recorder.media = "paused"
                    THEN [recorder EXCEPT !.media = "recording",
                                          !.timer = TRUE, !.isPaused = FALSE]
                    ELSE recorder,
                  speech)

\* Stop & Save button: Recorder.stopRecording up to the await of
\* recorder.stop(), which rejects when no recording is active
ClickStop ==
  /\ recorder.isRecording
  /\ recorder.pc = "idle"
  /\ RecorderStep(IF recorder.media \in {"null", "inactive"}
                    THEN recorder
                    ELSE [recorder EXCEPT !.media = "inactive",
                                          !.pc = "stopping"],
                  IF speech.isRunning THEN speechStop(speech) ELSE speech)

\* the stop event of the MediaRecorder: the onstop handler set by stop()
MediaOnStop ==
  /\ recorder.pc = "stopping"
  /\ RecorderStep([cleanup(recorder) EXCEPT !.pc = "idle",
                                            !.isRecording = FALSE,
                                            !.isPaused = FALSE,
                                            !.duration = 0],
                  speech)

\* the error event of the MediaRecorder: the onerror handler
MediaOnError ==
  /\ recorder.media \in {"recording", "paused"}
  /\ RecorderStep(cleanup(setError(recorder)), speech)

\* recognition.onresult
recognitionOnResult ==
  /\ speech.recognition \in {"active", "stopping"}
  /\ RecorderStep(recorder,
                  IF speech.callback THEN [speech EXCEPT !.updates = 1 - @]
                  ELSE speech)

SpeechErrors == {"no-speech", "aborted", "network"}

\* recognition.onerror, with restart() for the errors that call it; the
\* recognizer ends after an error
recognitionOnError(e) ==
  /\ speech.recognition = "active"
  /\ e \in SpeechErrors
  /\ RecorderStep(recorder,
                  [speech EXCEPT !.recognition = "stopping",
                                 !.timer = IF e \notin {"no-speech", "aborted"}
                                              /\ speech.isRunning
                                             THEN TRUE ELSE @])

\* an onend handler without its test of isRunning
recognitionOnEndAlways ==
  /\ speech.recognition = "stopping"
  /\ RecorderStep(recorder,
                  [speech EXCEPT !.recognition = "active", !.starts = 1 - @])

\* recognition.onend
recognitionOnEnd ==
  /\ speech.recognition = "stopping"
  /\ RecorderStep(recorder,
                  IF speech.isRunning
                    THEN [speech EXCEPT !.recognition = "active",
                                        !.starts = 1 - @]
                    ELSE [speech EXCEPT !.recognition = "idle"])

\* the timeout of restart() fires; recognition.start() throws when the
\* recognizer has not ended
restartTimeout ==
  /\ speech.timer
  /\ RecorderStep(recorder,
                  IF speech.isRunning
                    THEN [speech EXCEPT !.timer = FALSE, !.starts = 1 - @,
                                        !.recognition =
                                            IF @ = "idle" THEN "active" ELSE @]
                    ELSE [speech EXCEPT !.timer = FALSE])

NextRecorder ==
  \/ ClickStart
  \/ \E live \in BOOLEAN : StreamGranted(live)
  \/ StreamDenied
  \/ DurationTimer
  \/ ClickPause
  \/ ClickResume
  \/ ClickStop
  \/ MediaOnStop
  \/ MediaOnError
  \/ recognitionOnResult
  \/ \E e \in SpeechErrors : recognitionOnError(e)
  \/ recognitionOnEnd
  \/ restartTimeout

SpecRecorder == Init /\ [][NextRecorder]_vars

\* the two requests of adapter.transcribe one by one
Blobs == {"blob1", "blob2"}
UploadUrls == {"cdn/upload/1", "cdn/upload/2"}
\* the ids the provider gives its transcripts, one for each recording
TranscriptIds == 1..NumRecordings
NoUrl == ""

\* TranscriptionOptions as the callers can pass them; given = FALSE is a call
\* without options
SubmitOptions ==
  { [given |-> FALSE, language |-> "", speaker_labels |-> FALSE,
     speakers_expected |-> 0] }
    \cup [given : {TRUE}, language : {"", "auto", "en"},
          speaker_labels : BOOLEAN, speakers_expected : {0, 2}]

\* a transcript request sent with the blob's name instead of the upload_url
createTranscriptBodyOfBlob(audioUrl, options, blob) ==
  [audio_url |-> blob,
   language_detection |-> options.given /\ options.language = "auto",
   language_code |-> IF options.given /\ options.language \notin {"", "auto"}
                       THEN options.language ELSE "",
   speaker_labels |-> options.given /\ options.speaker_labels,
   speakers_expected |-> IF options.given /\ options.speaker_labels
                           THEN options.speakers_expected ELSE 0,
   punctuate |-> TRUE, format_text |-> TRUE, speech_model |-> "universal-2"]

\* createTranscript(audioUrl, options): the body of POST /transcript
createTranscriptBody(audioUrl, options, blob) ==
  [audio_url |-> audioUrl,
   language_detection |-> options.given /\ options.language = "auto",
   language_code |-> IF options.given /\ options.language \notin {"", "auto"}
                       THEN options.language ELSE "",
   speaker_labels |-> options.given /\ options.speaker_labels,
   speakers_expected |-> IF options.given /\ options.speaker_labels
                           THEN options.speakers_expected ELSE 0,
   punctuate |-> TRUE, format_text |-> TRUE, speech_model |-> "universal-2"]

\* adapter.transcribe(blob, options) before its first request: sent is the
\* sequence of requests made, url the upload_url received, o what has
\* happened to the requests
SubmitCall(blob, options) ==
  [op |-> "submit", in |-> [blob |-> blob, options |-> options],
   done |-> FALSE,
   out |-> [pc |-> "start", sent |-> << >>, url |-> NoUrl, o |-> "ok",
            result |-> adapterTranscribe("upload_network", NoJobId)]]

InitSubmit ==
  /\ db = [r \in Recs |-> NoJob]
  /\ recs = [r \in Recs |-> NoJob]
  /\ flows = [f \in FlowIds |-> FreeFlow]
  /\ writeQ = << >>
  /\ mountQ = << >>
  /\ clr = IdleClr
  /\ now = 0
  /\ nextJob = 1
  /\ settings = [enabled |-> TRUE, service |-> "assemblyai",
                 assemblyAIKey |-> "key"]
  /\ ops = 0
  /\ hist = [r \in Recs |-> NoHist]
  /\ adp \in { SubmitCall(b, opt) : b \in Blobs, opt \in SubmitOptions }
  /\ st = NoStore
  /\ recorder = NoRecorder
  /\ library = NoLibrary
  /\ speech = NoSpeech

\* the adapter call moves on; nothing else does
SubmitStep(out, done) ==
  /\ adp.op = "submit"
  /\ adp' = [adp EXCEPT !.out = out, !.done = done]
  /\ UNCHANGED <<st, db, recs, flows, writeQ, mountQ, clr, now, nextJob,
                 settings, ops, hist, recorder, library, speech>>

\* the catch block of transcribe after the requests went as o
SubmitFails(o) ==
  SubmitStep([adp.out EXCEPT !.pc = "returned", !.o = o,
                             !.result = adapterTranscribe(o, NoJobId)], TRUE)

\* uploadFile(blob) up to its await of fetch
FetchUpload ==
  /\ adp.op = "submit"
  /\ adp.out.pc = "start"
  /\ SubmitStep([adp.out EXCEPT !.pc = "uploading",
                   !.sent = << [path |-> "/upload", body |-> adp.in.blob] >>],
                FALSE)

\* the upload's fetch rejects, or answers with a status that is not ok:
\* uploadFile throws
UploadFails(o) ==
  /\ adp.op = "submit"
  /\ adp.out.pc = "uploading"
  /\ o \in {"upload_network", "upload_failed"}
  /\ SubmitFails(o)

\* the upload answers ok with an upload_url: createTranscript up to its
\* await of fetch
UploadReturns(url) ==
  /\ adp.op = "submit"
  /\ adp.out.pc = "uploading"
  /\ url \in UploadUrls
  /\ SubmitStep([adp.out EXCEPT !.pc = "requesting", !.url = url,
                   !.sent = Append(@,
                     [path |-> "/transcript",
                      body |-> createTranscriptBody(url, adp.in.options,
                                                    adp.in.blob)])],
                FALSE)

\* the transcript request rejects or answers not ok: createTranscript throws
TranscriptFails(o) ==
  /\ adp.op = "submit"
  /\ adp.out.pc = "requesting"
  /\ o \in {"transcript_network", "transcript_failed"}
  /\ SubmitFails(o)

\* the transcript request answers ok with the transcript id
TranscriptReturns(id) ==
  /\ adp.op = "submit"
  /\ adp.out.pc = "requesting"
  /\ id \in TranscriptIds
  /\ SubmitStep([adp.out EXCEPT !.pc = "returned",
                   !.result = adapterTranscribe("ok", id)], TRUE)

NextSubmit ==
  \/ FetchUpload
  \/ \E o \in RemoteOutcomes : UploadFails(o)
  \/ \E url \in UploadUrls : UploadReturns(url)
  \/ \E o \in RemoteOutcomes : TranscriptFails(o)
  \/ \E id \in TranscriptIds : TranscriptReturns(id)

SpecSubmit == InitSubmit /\ [][NextSubmit]_vars

NextAdapter ==
  \/ CallTranscribe
  \/ CallCheckStatus
  \/ CallMapStatus
  \/ CallFormatTimestamp

SpecAdapter == InitAdapter /\ [][NextAdapter]_vars

\* one call of transcribe, its polling loop and checkStatus calls, with a
\* provider that may send text before the job is completed
NextMerge ==
  \/ \E f \in UiFlows, r \in Recs : FirstTranscribe(f, r)
  \/ \E f \in UiFlows : SubmitReturn(f, "ok")
  \/ \E f \in FlowIds, o \in MergeOutcomes : PollReturn(f, o)
  \/ \E f \in FlowIds : LoopWake(f)
  \/ \E f \in UiFlows, r \in Recs : CheckStatus(f, r)
  \/ \E f \in UiFlows, o \in MergeOutcomes : CheckReturn(f, o)
  \/ Commit

SpecMerge == Init /\ [][NextMerge]_vars

\* one call of transcribe and its polling loop, with store updates that
\* can throw
NextFail ==
  \/ \E f \in UiFlows, r \in Recs : FirstTranscribe(f, r)
  \/ \E f \in UiFlows, o \in SubmitOutcomes : SubmitReturn(f, o)
  \/ \E f \in FlowIds, o \in PollOutcomes : PollReturn(f, o)
  \/ \E f \in FlowIds : LoopWake(f)
  \/ Commit
  \/ UpdateThrows

SpecFail == Init /\ [][NextFail]_vars

\* one call of transcribe followed to the end of its polling loop
NextPoll ==
  \/ \E f \in UiFlows, r \in Recs : FirstTranscribe(f, r)
  \/ \E f \in UiFlows : SubmitReturn(f, "ok")
  \/ \E f \in FlowIds, o \in PollOutcomes : PollReturn(f, o)
  \/ \E f \in FlowIds : LoopWake(f)
  \/ Commit

\* the provider answers every request and the timers fire
SpecPoll == Init /\ [][NextPoll]_vars /\ WF_vars(NextPoll)

\* the steps that need no user: the provider answers a submit or a poll, the
\* 5-second timer of a loop fires, an update reaches the store
LiveSteps ==
  \/ \E f \in UiFlows, o \in SubmitOutcomes : SubmitReturn(f, o)
  \/ \E f \in FlowIds, o \in PollOutcomes : PollReturn(f, o)
  \/ \E f \in FlowIds : LoopWake(f)
  \/ Commit

\* the life of one job across page loads: the page is reloaded at any point
\* of transcribe or of the loop, the settings change before a reload
NextLive ==
  \/ \E f \in UiFlows, r \in Recs : FirstTranscribe(f, r)
  \/ \E s \in SettingsValues : ChangeSettings(s)
  \/ Reload
  \/ LiveSteps

\* the provider answers every request, the timers fire and every update
\* completes; the user's steps are under no obligation
SpecLive == Init /\ [][NextLive]_vars /\ WF_vars(LiveSteps)

\* one call of transcribe while the clock advances: the upload takes time,
\* the loop polls, clearTimedOutTranscriptions runs
NextStarted ==
  \/ \E f \in UiFlows, r \in Recs : FirstTranscribe(f, r)
  \/ \E f \in UiFlows, o \in SubmitOutcomes : SubmitReturn(f, o)
  \/ \E f \in FlowIds, o \in PollOutcomes : PollReturn(f, o)
  \/ \E f \in FlowIds : LoopWake(f)
  \/ Tick
  \/ ClearTimedOut
  \/ Commit

SpecStarted == Init /\ [][NextStarted]_vars

\* the settings change between the calls of transcribe on one recording
NextSettings ==
  \/ \E s \in SettingsValues : ChangeSettings(s)
  \/ \E f \in UiFlows, r \in Recs : FocusTranscribe(f, r)
  \/ \E r \in Recs : TranscribeUnavailable(r)
  \/ \E f \in UiFlows, o \in SubmitOutcomes : SubmitReturn(f, o)
  \/ \E f \in FlowIds, o \in PollOutcomes : PollReturn(f, o)
  \/ Commit
  \/ UnmountItems

SpecSettings == Init /\ [][NextSettings]_vars

TypeOK ==
  /\ \A r \in Recs : db[r].status \in {"none"} \cup InProgress \cup Terminal
  /\ \A f \in FlowIds : flows[f].attempts <= maxAttempts

\* ------------------------------------------------------------------ claims
\* the update of writer w is the one that completes in the next Commit
Writing(w) == writeQ # << >> /\ Head(writeQ) = w

\* the step is the Commit that completes the update of writer w
Completes(w) ==
  /\ Writing(w)
  /\ ops' = ops
  /\ IF w = ClrId THEN clr' # clr ELSE flows'[w].pc # flows[w].pc

LoopPcs == {"polling", "w_poll", "sleeping", "w_timeout"}

ContainsTimedOut(msg) == \E i \in DOMAIN msg : msg[i] = "timed out"

\* C1: once the stored status of a recording is completed or error, a step
\* changes it only if it completes a write of an explicit call (transcribe,
\* retryTranscription, checkStatus), never a write of a polling loop, of
\* resumePolling or of a clear operation.
C1_TerminalStatusStays ==
  [][\A r \in Recs :
       (db[r].status \in Terminal /\ db'[r].status # db[r].status)
         => \E f \in UiFlows :
              /\ Writing(f)
              /\ flows[f].rec = r
              /\ flows[f].pc \in {"w_processing", "w_result", "w_check"}]_vars

\* C2: at most one polling loop is active for a recording at any time.
C2_OneLoopPerRecording ==
  \A r \in Recs :
    Cardinality({f \in FlowIds : flows[f].rec = r /\ flows[f].pc \in LoopPcs})
      <= 1

C5_JobIdFollowsSubmit ==
  \A r \in Recs :
    /\ hist[r].phase = "submitted" => db[r].jobId # NoJobId
    /\ hist[r].phase = "failed" => db[r].jobId = NoJobId

\* C6: the write of a poll of the job with jobId j stores status processing,
\* jobId j and no completedAt when the provider says queued or processing,
\* and status completed, the returned text, jobId j and a completedAt when
\* it says completed.
C6_PollReflected ==
  [][\A f \in FlowIds :
       (Completes(f) /\ flows[f].pc = "w_poll")
         => LET r == flows[f].rec IN
            /\ hist[r].id # NoJobId
            /\ flows[f].raw \in {"queued", "processing"}
                 => /\ db'[r].status = "processing"
                    /\ db'[r].jobId = hist[r].id
                    /\ db'[r].completedAt = NoTime
            /\ flows[f].raw = "completed"
                 => /\ db'[r].status = "completed"
                    /\ db'[r].text = CompletedText
                    /\ db'[r].jobId = hist[r].id
                    /\ db'[r].completedAt # NoTime]_vars

C6_Witness ==
  \E r \in Recs :
    /\ hist[r].id # NoJobId
    /\ db[r].status = "completed"
    /\ db[r].text = CompletedText
    /\ db[r].jobId = hist[r].id
    /\ db[r].completedAt # NoTime

\* C7: a polling loop makes at most maxAttempts (120) checkStatus calls; the
\* timer after the 120th call leads to the timeout write and to no further
\* call; the timeout write stores status error with the error "Transcription
\* polling timed out" and ends the loop; and every loop ends.
C7_LoopBounded ==
  /\ [][\A f \in FlowIds :
          /\ flows'[f].calls <= maxAttempts
          /\ (flows[f].pc = "sleeping" /\ flows[f].calls = maxAttempts
                /\ flows'[f] # flows[f])
               => flows'[f].pc = "w_timeout" /\ flows'[f].calls = maxAttempts
          /\ (Completes(f) /\ flows[f].pc = "w_timeout")
               => /\ flows[f].calls = maxAttempts
                  /\ db'[flows[f].rec].status = "error"
                  /\ db'[flows[f].rec].error = ErrPollingTimedOut
                  /\ flows'[f].pc = "free"]_vars
  /\ \A f \in FlowIds : (flows[f].pc \in LoopPcs) ~> (flows[f].pc = "free")

C7_Witness ==
  \E r \in Recs :
    /\ db[r].status = "error"
    /\ db[r].error = ErrPollingTimedOut
    /\ \A f \in FlowIds : flows[f].pc = "free"

\* C8: onMount's resumePolling of a record in progress with a jobId issues
\* the timeout write, and no checkStatus call, exactly when startedAt is
\* more than timeoutMs (10 minutes) in the past; the write stores status
\* error, an error containing "timed out", and the record's jobId and
\* service.
C8_ResumeExpired ==
  [][/\ (flows'[0] # flows[0] /\ flows'[0].pc = "w_resume")
          => /\ flows'[0].snap.status \in InProgress
             /\ flows'[0].snap.jobId # NoJobId
             /\ (now' - flows'[0].snap.startedAt) * TickMs > timeoutMs
             /\ flows'[0].calls = 0
     /\ (flows'[0] # flows[0] /\ flows'[0].pc = "polling"
           /\ flows'[0].attempts = 0)
          => (now' - flows'[0].snap.startedAt) * TickMs <= timeoutMs
     /\ (Completes(0) /\ flows[0].pc = "w_resume")
          => LET r == flows[0].rec IN
             /\ db'[r].status = "error"
             /\ ContainsTimedOut(db'[r].error)
             /\ db[r].jobId # NoJobId
             /\ db'[r].jobId = db[r].jobId
             /\ db'[r].service = db[r].service
             /\ flows[0].calls = 0]_vars

C8_Witness ==
  \E r \in Recs :
    /\ db[r].status = "error"
    /\ db[r].error = ErrResumeTimedOut
    /\ db[r].jobId # NoJobId

\* C9: the completion of the first write of transcribe/retryTranscription
\* leaves the stored job with status processing and without text, error and
\* jobId, while the submit is in flight.
C9_RetryOverwrites ==
  [][\A f \in UiFlows :
       (Completes(f) /\ flows[f].pc = "w_processing")
         => LET r == flows[f].rec IN
            /\ db'[r].status = "processing"
            /\ db'[r].text = NoText
            /\ db'[r].error = NoError
            /\ db'[r].jobId = NoJobId
            /\ flows'[f].pc = "submitting"]_vars

\* the first write of a retry is about to overwrite a terminal job that has
\* a jobId and an error or a text
C9_Witness ==
  \E f \in UiFlows :
    /\ Writing(f)
    /\ flows[f].pc = "w_processing"
    /\ db[flows[f].rec].status \in Terminal
    /\ db[flows[f].rec].jobId # NoJobId
    /\ db[flows[f].rec].error # NoError \/ db[flows[f].rec].text # NoText

\* C10: clearAllInProgressTranscriptions writes status error with the error
\* "Cleared by user" to the recordings that were processing or pending when
\* it was called, to each of them and to no other, and returns their number.
C10_ClearAllExact ==
  [][/\ (Completes(ClrId) /\ clr.kind = "all")
          => /\ clr.snap[clr.idx].status \in InProgress
             /\ db'[clr.idx].status = "error"
             /\ db'[clr.idx].error = ErrClearedByUser
             /\ \A r \in Recs \ {clr.idx} : db'[r] = db[r]
             /\ clr'.pc = "idle"
                  => /\ clr.written \cup {clr.idx}
                          = {r \in Recs : clr.snap[r].status \in InProgress}
                     /\ clr'.ret = Cardinality(clr.written \cup {clr.idx})
     /\ (clr.pc = "idle" /\ clr'.pc = "idle" /\ clr' # clr /\ ops' = ops)
          => /\ \A r \in Recs : recs[r].status \notin InProgress
             /\ clr'.ret = 0
             /\ db' = db]_vars

C10_Witness ==
  /\ clr.pc = "idle"
  /\ clr.ret = 1
  /\ \E r \in Recs : db[r].status = "error" /\ db[r].error = ErrClearedByUser
  /\ \E r \in Recs : db[r].status = "completed"

\* no adapter is available under the current settings
NoAdapterAvailable ==
  \/ ~settings.enabled
  \/ settings.service # "assemblyai"
  \/ settings.assemblyAIKey = ""

\* C11: a call of transcribe made while transcription is disabled, the
\* service is not assemblyai or the API key is empty issues no store update
\* and no request: the stored jobs, the in-memory jobs, the pending updates
\* and the calls in flight are unchanged.
C11_NoAdapterNoEffect ==
  [][(NoAdapterAvailable /\ ops' # ops)
       => /\ db' = db
          /\ recs' = recs
          /\ writeQ' = writeQ
          /\ flows' = flows
          /\ nextJob' = nextJob]_vars

\* calls were made, all of them without an adapter: nothing was ever stored
C11_Witness ==
  /\ ops > 0
  /\ NoAdapterAvailable
  /\ \A r \in Recs : db[r] = NoJob /\ recs[r] = NoJob
  /\ \A f \in FlowIds : flows[f].pc = "free"
  /\ writeQ = << >>

\* C12: a call of resumePolling on a recording whose job is completed or
\* error issues no store update and no request: the stored jobs, the
\* in-memory jobs, the pending updates and the calls in flight are unchanged,
\* also when the call is repeated.
C12_ResumeTerminalNoOp ==
  [][\A r \in Recs :
       (/\ hist'[r].call # hist[r].call
        /\ hist'[r].phase = "resumed"
        /\ recs[r].status \in Terminal)
         => /\ db' = db
            /\ recs' = recs
            /\ writeQ' = writeQ
            /\ flows' = flows]_vars

\* resumePolling has been called on a terminal job with a jobId, after the
\* page was loaded, and nothing is in flight
C12_Witness ==
  \E r \in Recs :
    /\ hist[r].phase = "resumed"
    /\ hist[r].call = MaxOps
    /\ recs[r].status \in Terminal
    /\ recs[r].jobId # NoJobId
    /\ \A f \in FlowIds : flows[f].pc = "free"
    /\ writeQ = << >>

\* the submit of the call in flow f has failed: its result write is pending
SubmitFailed(f) ==
  /\ flows[f].pc = "w_result"
  /\ flows[f].val.status = "error"

\* C13 as claimed: while a call of transcribe whose submit has failed is in
\* progress, the stored job of its recording never has status processing.
C13_NeverProcessing ==
  \A f \in UiFlows :
    SubmitFailed(f) => db[flows[f].rec].status # "processing"

\* C13 as amended: the first write of a call stores status processing; when
\* the submit fails, the result write stores status error, the failure
\* message of the upload or of the transcript request and no jobId, and the
\* call ends without a polling loop.
C13_SubmitFailureRecorded ==
  [][\A f \in UiFlows :
       LET r == flows[f].rec IN
       /\ (Completes(f) /\ flows[f].pc = "w_processing")
            => db'[r].status = "processing"
       /\ (Completes(f) /\ SubmitFailed(f))
            => /\ db'[r].status = "error"
               /\ db'[r].error \in {ErrUploadFailed, ErrTranscriptRequestFailed}
               /\ db'[r].jobId = NoJobId
               /\ db'[r].completedAt = NoTime
               /\ flows'[f].pc = "free"]_vars

\* a failed submit has been recorded and its call has ended
C13_Witness ==
  \E r \in Recs :
    /\ db[r].status = "error"
    /\ db[r].error \in {ErrUploadFailed, ErrTranscriptRequestFailed}
    /\ hist[r].phase = "failed"
    /\ \A f \in FlowIds : flows[f].pc = "free"

\* C14: when a polling loop stops other than by a completed response, the
\* stored job has status error and carries a message (the failure of the
\* poll, of the loop body, or the timeout), and a failed poll response is
\* stored as error with its message by the write that ends the loop.
C14_PollFailureFinalizes ==
  [][\A f \in FlowIds :
       LET r == flows[f].rec IN
       /\ (Completes(f) /\ flows[f].pc = "w_poll"
             /\ flows[f].val.status = "error" /\ flows'[f].pc = "free")
            => /\ db'[r].status = "error"
               /\ db'[r].error \in {ErrApi, ErrProvider}
       /\ (/\ flows[f].calls > 0
           /\ flows[f].pc \in {"w_poll", "w_catch", "w_timeout"}
           /\ flows'[f].pc \in {"free", "rejected"}
           /\ ~(flows[f].pc = "w_poll" /\ flows[f].val.status = "completed"))
            => /\ db'[r].status = "error"
               /\ db'[r].error # NoError]_vars

\* C15: the write of a poll of the loop or of checkStatus leaves the stored
\* service, jobId and startedAt as they are, and leaves the stored text as
\* it is when the response carries no text.
C15_MergeKeepsStored ==
  [][\A f \in FlowIds :
       (Completes(f) /\ flows[f].pc \in {"w_poll", "w_check"})
         => LET r == flows[f].rec IN
            /\ db'[r].service = db[r].service
            /\ db'[r].jobId = db[r].jobId
            /\ db'[r].startedAt = db[r].startedAt
            /\ flows[f].rtext = NoText => db'[r].text = db[r].text]_vars

\* C16: adapter.transcribe and adapter.checkStatus never throw; when a
\* remote call fails (the network fails, or the upload, transcript or status
\* response is not OK) transcribe returns status error, a message and no
\* jobId, and checkStatus returns status error and a message.
C16_AdapterNeverThrows ==
  /\ (adp.done /\ adp.op = "transcribe")
       => /\ ~adp.out.threw
          /\ adp.in # "ok"
               => /\ adp.out.status = "error"
                  /\ adp.out.error # NoError
                  /\ adp.out.jobId = NoJobId
  /\ (adp.done /\ adp.op = "checkStatus")
       => /\ ~adp.out.threw
          /\ (~adp.in.reached \/ ~adp.in.ok)
               => /\ adp.out.status = "error"
                  /\ adp.out.error # NoError

C16_Witness ==
  /\ adp.done
  /\ adp.op = "checkStatus"
  /\ adp.in.reached
  /\ ~adp.in.ok
  /\ adp.out = [threw |-> FALSE, status |-> "error", text |-> NoText,
                error |-> ErrApi]

\* C17: the promise of a polling loop started by transcribe never rejects,
\* whatever remote call or store update fails inside the loop.
C17_LoopNeverRejects ==
  \A f \in FlowIds : ~(flows[f].calls > 0 /\ flows[f].pc = "rejected")

\* C18: mapStatus returns a status for every provider value: processing for
\* queued and processing, completed for completed, error for error, and
\* pending (never error) for every other value.
C18_MapStatusTotal ==
  (adp.done /\ adp.op = "mapStatus")
    => /\ adp.out \in {"pending", "processing", "completed", "error"}
       /\ adp.in \in {"queued", "processing"} => adp.out = "processing"
       /\ adp.in = "completed" => adp.out = "completed"
       /\ adp.in = "error" => adp.out = "error"
       /\ adp.in \notin {"queued", "processing", "completed", "error"}
            => adp.out = "pending"

C18_Witness ==
  /\ adp.done
  /\ adp.op = "mapStatus"
  /\ adp.in = "banana"
  /\ adp.out = "pending"

\* reading a rendered timestamp back
IsDigit(c) == c \in {"0", "1", "2", "3", "4", "5", "6", "7", "8", "9"}

DigitValue(c) == CHOOSE d \in 0..9 : Digit(d) = c

\* the seconds a string of fields separated by ":" stands for, the fields
\* read as ...hours:minutes:seconds; total is the value of the fields read
\* so far and field the value of the digits of the current one
RECURSIVE ReadSeconds(_, _, _)
ReadSeconds(chars, total, field) ==
  IF chars = << >> THEN total * 60 + field
  ELSE IF Head(chars) = ":"
    THEN ReadSeconds(Tail(chars), total * 60 + field, 0)
  ELSE ReadSeconds(Tail(chars), total, field * 10 + DigitValue(Head(chars)))

Colons(chars) == Cardinality({i \in DOMAIN chars : chars[i] = ":"})

\* C19: for a non-negative integer ms, formatTimestamp(ms) renders the whole
\* seconds s = ms div 1000 as H:MM:SS when s >= 3600 and as M:SS otherwise,
\* the seconds (and, in the hour form, the minutes) zero-padded to two
\* digits; 0 gives "0:00", 65000 gives "1:05", 3661000 gives "1:01:01".
C19_FormatTimestamp ==
  (adp.done /\ adp.op = "formatTimestamp")
    => LET s == adp.in \div 1000
           out == adp.out
           n == Len(out) IN
       /\ \A i \in 1..n : IsDigit(out[i]) \/ out[i] = ":"
       /\ n >= 4
       /\ out[n - 2] = ":" /\ IsDigit(out[n - 1]) /\ IsDigit(out[n])
       /\ IsDigit(out[1])
       /\ s < 3600 => Colons(out) = 1
       /\ s >= 3600
            => /\ Colons(out) = 2
               /\ n >= 7
               /\ out[n - 5] = ":" /\ IsDigit(out[n - 4])
                    /\ IsDigit(out[n - 3])
       /\ ReadSeconds(out, 0, 0) = s
       /\ adp.in = 0 => out = <<"0", ":", "0", "0">>
       /\ adp.in = 65000 => out = <<"1", ":", "0", "5">>
       /\ adp.in = 3661000 => out = <<"1", ":", "0", "1", ":", "0", "1">>

C19_Witness ==
  /\ adp.done
  /\ adp.op = "formatTimestamp"
  /\ adp.in = 3661000
  /\ adp.out = <<"1", ":", "0", "1", ":", "0", "1">>

\* the positions of a text where the block of an utterance begins
BlockStarts(text) == {i \in DOMAIN text : text[i] = "["}

\* the start time, in seconds, rendered in the block that begins at i
BlockStartSeconds(text, i) ==
  LET j == CHOOSE j \in (i + 1)..Len(text) :
             /\ text[j] = " - "
             /\ \A k \in (i + 1)..(j - 1) : text[k] # " - " IN
  ReadSeconds(SubSeq(text, i + 1, j - 1), 0, 0)

\* C20: when the response carries speaker labels and utterances, the text
\* checkStatus returns lists the blocks of the utterances in non-decreasing
\* order of their start times, whatever the order of the utterances array.
C20_SegmentsOrdered ==
  (/\ adp.done
   /\ adp.op = "checkStatus"
   /\ adp.in.reached /\ adp.in.ok
   /\ adp.in.speaker_labels /\ Len(adp.in.utterances) > 0)
    => /\ Cardinality(BlockStarts(adp.out.text)) = Len(adp.in.utterances)
       /\ \A i, k \in BlockStarts(adp.out.text) :
            i < k => BlockStartSeconds(adp.out.text, i)
                       <= BlockStartSeconds(adp.out.text, k)

\* the recording the clear operation c examines next: its pending update,
\* or past the last recording when it has returned
ClearPosition(c) == IF c.pc = "w_clear" THEN c.idx ELSE NumRecordings + 1

\* job is in progress and its startedAt is more than 10 minutes before t
TimedOutAt(job, t) ==
  /\ job.status \in InProgress
  /\ job.startedAt # NoTime
  /\ (t - job.startedAt) * TickMs > 10 * 60 * 1000

\* C21: clearTimedOutTranscriptions writes status error with the error
\* "Cleared - timed out" to the recordings of its list that are processing
\* or pending with a startedAt more than 10 minutes old when it examines
\* them, to each of them and to no other recording, and returns their
\* number.
C21_ClearTimedOutExact ==
  [][/\ (Completes(ClrId) /\ clr.kind = "timedout")
          => /\ TimedOutAt(clr.snap[clr.idx], now)
             /\ db'[clr.idx] = [clr.snap[clr.idx] EXCEPT
                                  !.status = "error",
                                  !.error = ErrClearedTimedOut]
             /\ \A r \in Recs \ {clr.idx} : db'[r] = db[r]
             /\ \A r \in (clr.idx + 1)..(ClearPosition(clr') - 1) :
                  ~TimedOutAt(clr.snap[r], now)
             /\ clr'.pc = "idle"
                  => clr'.ret = Cardinality(clr.written \cup {clr.idx})
     /\ (clr.pc = "idle" /\ clr' # clr /\ ops' = ops)
          => /\ clr'.kind = "timedout"
             /\ \A r \in 1..(ClearPosition(clr') - 1) :
                  ~TimedOutAt(recs[r], now)
             /\ clr'.pc = "idle" => clr'.ret = 0
             /\ db' = db]_vars

\* the call has returned 1: one job is finalized, a terminal job and a job
\* in progress inside the window are as they were
C21_Witness ==
  /\ clr.pc = "idle"
  /\ clr.ret = 1
  /\ \E r \in Recs :
       db[r].status = "error" /\ db[r].error = ErrClearedTimedOut
  /\ \E r \in Recs :
       /\ db[r].status \in InProgress
       /\ db[r].startedAt # NoTime
       /\ ~Expired(db[r])
  /\ now = MaxTicks

\* no update and no delete of the store is in progress
StoreQuiet == \A c \in StoreCallers : CallerFree(c)

\* C22: updates of a polling loop and of the UI on the same recording never
\* race: once the overlapping updates have completed, the persisted record
\* holds every field as the in-memory list does (both updates are there).
C22_PersistedEqualsMemory ==
  StoreQuiet
    => \A id \in DOMAIN st.disk \cap DOMAIN st.mem : st.disk[id] = st.mem[id]

\* C23: when db.get of a store update finds no record under the id, the
\* update throws the not-found error to its caller and makes no further
\* step: the persisted records and the in-memory list stay as they are.
C23_UpdateNotFound ==
  [][\A c \in StoreCallers :
       /\ (/\ st.call[c].pc = "get"
           /\ st'.call[c] # st.call[c]
           /\ st.call[c].id \notin DOMAIN st.disk)
            => /\ st'.call[c].pc = "threw"
               /\ st'.disk = st.disk
               /\ st'.mem = st.mem
       /\ (st.call[c].pc = "threw" /\ st'.call[c] # st.call[c])
            => /\ st'.call[c].pc \in {"get", "del"}
               /\ st'.disk = st.disk
               /\ st'.mem = st.mem]_vars

\* an update of a recording that is in no store has thrown
C23_Witness ==
  \E c \in StoreCallers :
    /\ st.call[c].pc = "threw"
    /\ st.call[c].id \notin DOMAIN st.disk
    /\ st.call[c].id \notin DOMAIN st.mem

\* the step completes the update of flow f without a throw
Committed(f) == Completes(f) /\ flows'[f].pc \notin {"w_catch", "rejected"}

\* C24: the writes of one call of transcribe are ordered: the submit starts
\* when the processing write has completed, the result write follows the
\* submit, a polling loop (and with it the first checkStatus call) starts
\* only when the result write has completed, and only for a result with
\* status processing and a jobId; the poll writes follow.
C24_WritesOrdered ==
  [][\A f \in FlowIds :
       LET fl == flows[f]
           r == fl.rec IN
       /\ (flows'[f].pc = "submitting" /\ fl.pc # "submitting")
            => /\ fl.pc = "w_processing"
               /\ Committed(f)
               /\ db'[r].status = "processing"
               /\ db'[r].jobId = NoJobId
       /\ (flows'[f].pc = "w_result" /\ fl.pc # "w_result")
            => fl.pc = "submitting"
       /\ (flows'[f].pc = "polling" /\ fl.pc \notin LoopPcs)
            => /\ fl.pc = "w_result"
               /\ Committed(f)
               /\ fl.val.status = "processing"
               /\ fl.val.jobId # NoJobId
               /\ db'[r] = fl.val
               /\ flows'[f].snap.jobId = fl.val.jobId
       /\ (flows'[f].pc = "w_poll" /\ fl.pc # "w_poll")
            => /\ fl.pc = "polling"
               /\ hist[r].phase = "submitted"
               /\ hist[r].id = fl.snap.jobId
       /\ (/\ Committed(f)
           /\ fl.pc = "w_result"
           /\ ~(fl.val.status = "processing" /\ fl.val.jobId # NoJobId))
            => flows'[f].pc = "free"]_vars

\* a poll write of the loop is pending on the job the result write stored
C24_Witness ==
  \E f \in FlowIds :
    /\ Writing(f)
    /\ flows[f].pc = "w_poll"
    /\ flows[f].snap.jobId # NoJobId
    /\ db[flows[f].rec] = flows[f].snap
    /\ hist[flows[f].rec].phase = "submitted"

\* C25: transcribe returns to its caller when the result write has
\* completed: from then on no caller waits (the item's isTranscribing is
\* false) while the polling loop it started goes on polling and writing.
C25_TranscribeReturnsAfterSubmit ==
  [][\A f \in FlowIds :
       /\ (/\ Completes(f)
           /\ flows[f].pc = "w_result"
           /\ flows[f].val.status = "processing"
           /\ flows[f].val.jobId # NoJobId)
            => /\ flows[f].ui
               /\ flows'[f].pc = "polling"
               /\ ~flows'[f].ui
               /\ ~isTranscribing(flows[f].rec)'
       /\ flows'[f].pc \in LoopPcs => ~flows'[f].ui]_vars

\* the loop sleeps between two polls of a job still processing and nothing
\* waits for it
C25_Witness ==
  \E f \in FlowIds :
    /\ flows[f].pc = "sleeping"
    /\ flows[f].attempts > 0
    /\ db[flows[f].rec].status = "processing"
    /\ ~isTranscribing(flows[f].rec)

\* C26: at application start no job in progress waits for the job of
\* another recording: while onMount polls the job of one recording, no
\* other recording with a job to resume or to expire is still queued
\* behind it.
C26_ResumeIndependent ==
  \A i \in DOMAIN mountQ :
    ~(/\ flows[0].pc \in LoopPcs
      /\ mountQ[i].rec # flows[0].rec
      /\ mountQ[i].snap.status \in InProgress
      /\ mountQ[i].snap.jobId # NoJobId)

\* C27: checkStatus(recording) makes one adapter.checkStatus call and then
\* one store write that merges the polled status into the recording's job,
\* with a completedAt exactly when the polled status is completed, and it
\* does so only when an adapter is available and the recording has a
\* jobId; otherwise the call changes nothing.
C27_CheckStatusOnce ==
  [][\A f \in UiFlows :
       LET fl == flows[f]
           r == fl.rec IN
       /\ (flows'[f].pc = "checking" /\ fl.pc # "checking")
            => /\ getAdapter
               /\ recs[flows'[f].rec].jobId # NoJobId
               /\ flows'[f].calls = 1
               /\ writeQ' = writeQ
               /\ db' = db
       /\ (fl.pc = "checking" /\ flows'[f] # fl /\ ops' = ops)
            => /\ flows'[f].pc = "w_check"
               /\ flows'[f].calls = 1
               /\ writeQ' = Append(writeQ, f)
               /\ flows'[f].val =
                    [fl.snap EXCEPT !.status = flows'[f].val.status,
                                    !.text = flows'[f].val.text,
                                    !.error = flows'[f].val.error,
                                    !.completedAt = flows'[f].val.completedAt]
               /\ flows'[f].val.completedAt # NoTime
                    <=> flows'[f].val.status = "completed"
       /\ (Completes(f) /\ fl.pc = "w_check")
            => /\ flows'[f].pc = "free"
               /\ db'[r] = fl.val
               /\ \A r2 \in Recs \ {r} : db'[r2] = db[r2]
       /\ (ops' = ops + 1 /\ flows' = flows)
            => /\ db' = db
               /\ writeQ' = writeQ]_vars

\* the write of a checkStatus call whose poll returned completed is pending
C27_Witness ==
  \E f \in UiFlows :
    /\ Writing(f)
    /\ flows[f].pc = "w_check"
    /\ flows[f].calls = 1
    /\ flows[f].val.status = "completed"
    /\ flows[f].val.completedAt # NoTime
    /\ flows[f].val.jobId # NoJobId

\* C28: resumePolling of a record that is processing or pending but has no
\* jobId does nothing: it issues no write and no checkStatus call for the
\* record, however old the job is, and the stored job stays as it is.
C28_ResumeWithoutJobId ==
  [][/\ \A f \in FlowIds :
          (flows'[f] # flows[f] /\ flows'[f].pc # "free")
            => flows'[f].snap.jobId # NoJobId
     /\ \A r \in Recs :
          (/\ db[r].status \in InProgress
           /\ db[r].jobId = NoJobId
           /\ db'[r] # db[r])
            => Completes(ClrId)]_vars

\* the page has been loaded when the job without jobId was more than 10
\* minutes old: onMount is through and the job is as it was
C28_Witness ==
  /\ now = MaxTicks
  /\ flows[0].pc = "free"
  /\ writeQ = << >>
  /\ mountQ = << >>
  /\ \E r \in Recs :
       /\ recs[r].status = "processing"
       /\ recs[r].jobId = NoJobId
       /\ Expired(recs[r])
       /\ db[r] = recs[r]

\* C29: a polling loop writes only to the job it was started for: once the
\* most recent transcribe call of a recording has written its submit result,
\* every write a loop completes on the recording carries the jobId of that
\* submit (none if it failed) and leaves the stored startedAt as it is.
C29_LoopWritesOwnJob ==
  [][\A f \in FlowIds :
       (/\ Completes(f)
        /\ flows[f].pc \in {"w_poll", "w_timeout"}
        /\ hist[flows[f].rec].phase \in {"submitted", "failed"})
         => /\ db'[flows[f].rec].jobId = hist[flows[f].rec].id
            /\ db'[flows[f].rec].startedAt = db[flows[f].rec].startedAt]_vars

\* C30: every job stored as processing is eventually stored as completed or
\* error, with the page reloaded at any point and the settings changed
\* before a reload, when the provider answers and the timers fire.
C30_ProcessingEnds ==
  \A r \in Recs :
    (db[r].status = "processing") ~> (db[r].status \in Terminal)

\* C31: once a job is stored as completed with a transcript text, the status
\* and the text stay as they are until a write of an explicit call on the
\* recording (transcribe, retryTranscription, checkStatus); no write of a
\* clear operation or of a polling loop changes them.
C31_CompletedTextStays ==
  [][\A r \in Recs :
       (/\ db[r].status = "completed"
        /\ db[r].text \notin {NoText, ""}
        /\ db'[r].status # "completed" \/ db'[r].text # db[r].text)
         => \E f \in UiFlows :
              /\ Writing(f)
              /\ flows[f].rec = r
              /\ flows[f].ui
              /\ flows[f].pc \in {"w_processing", "w_result", "w_check"}]_vars

\* C32: the startedAt of a job is set by the processing write at the start
\* of transcribe and by no other write, and no later write of the job (the
\* submit-result write, poll, timeout and clear writes) changes or removes
\* it.
C32_StartedAtSetOnce ==
  [][\A r \in Recs :
       db'[r].startedAt # db[r].startedAt
         => \E f \in UiFlows :
              /\ Writing(f)
              /\ flows[f].rec = r
              /\ flows[f].pc = "w_processing"]_vars

\* C33: a polling loop ends with the write of a poll result that is completed
\* or error: the call returns and makes no further checkStatus call or
\* write. After the write of a processing or pending result it suspends,
\* and the timer is followed by the next checkStatus call; every checkStatus
\* call but the first follows a suspension.
C33_LoopStopsOnTerminal ==
  [][\A f \in FlowIds :
       /\ (Committed(f) /\ flows[f].pc = "w_poll")
            => IF flows[f].val.status \in Terminal
                 THEN flows'[f] = FreeFlow
                 ELSE /\ flows'[f].pc = "sleeping"
                      /\ flows'[f].calls = flows[f].calls
       /\ (flows[f].pc = "sleeping" /\ flows'[f] # flows[f]
              /\ flows[f].calls < maxAttempts)
            => /\ flows'[f].pc = "polling"
               /\ flows'[f].calls = flows[f].calls + 1
       /\ flows'[f].calls > flows[f].calls
            => \/ flows[f].pc = "sleeping"
               \/ flows[f].pc = "w_result" /\ flows'[f].calls = 1]_vars

\* a loop has ended with the error result a poll returned: nothing is in
\* flight and no flow is left
C33_Witness ==
  /\ writeQ = << >>
  /\ \A f \in FlowIds : flows[f] = FreeFlow
  /\ \E r \in Recs :
       /\ db[r].status = "error"
       /\ db[r].jobId # NoJobId
       /\ db[r].error \notin {NoError, ErrPollingTimedOut}

\* C34: adapter.transcribe makes its two requests in a fixed order: first the
\* upload of the blob; the transcript request is sent only when the upload
\* has answered ok and its audio_url is the upload_url of that answer; when
\* the upload fails no transcript request is sent and the call returns an
\* error result.
C34_UploadThenTranscript ==
  adp.op = "submit" =>
    LET sent == adp.out.sent IN
    /\ Len(sent) <= 2
    /\ Len(sent) >= 1
         => sent[1] = [path |-> "/upload", body |-> adp.in.blob]
    /\ Len(sent) = 2
         => /\ adp.out.url \in UploadUrls
            /\ adp.out.o \notin {"upload_network", "upload_failed"}
            /\ sent[2].path = "/transcript"
            /\ sent[2].body.audio_url = adp.out.url
    /\ adp.out.o \in {"upload_network", "upload_failed"}
         => /\ Len(sent) = 1
            /\ adp.done
            /\ adp.out.result.status = "error"
            /\ adp.out.result.jobId = NoJobId
    /\ (adp.done /\ adp.out.result.status = "processing")
         => Len(sent) = 2 /\ adp.out.result.jobId \in TranscriptIds

\* both requests have been made and the call has returned the transcript id
C34_Witness ==
  /\ adp.op = "submit"
  /\ adp.done
  /\ Len(adp.out.sent) = 2
  /\ adp.out.sent[2].body.audio_url = "cdn/upload/2"
  /\ adp.out.result.status = "processing"
  /\ adp.out.result.jobId = 2

\* C35: an update that overlaps the deletion of its recording does not
\* bring the record back: a record that is absent from the persisted
\* records (it was deleted; nothing is added here) is absent after every
\* step of an update, and so is it from the in-memory list.
C35_DeletedStaysDeleted ==
  [][\A id \in Recs :
       /\ id \notin DOMAIN st.disk => id \notin DOMAIN st'.disk
       /\ id \notin DOMAIN st.mem => id \notin DOMAIN st'.mem]_vars

\* C36: in every state of the recorderState store, isPaused implies
\* isRecording.
C36_PausedImpliesRecording ==
  recorder.isPaused => recorder.isRecording

\* C38: from the return of LiveSpeechRecognition.stop() to the next start(),
\* recognition.start() is not called, neither by the onend handler nor by
\* the timeout of restart(), and the transcript-update callback is not
\* invoked.
C38_StoppedStaysStopped ==
  [][(speech.stopped /\ speech'.stopped)
       => /\ speech'.starts = speech.starts
          /\ speech'.updates = speech.updates
          /\ ~speech'.isRunning
          /\ speech'.recognition # "active"]_vars

\* stop() has returned, the recognizer has ended after it and the timeout
\* of a restart from before the stop has fired
C38_Witness ==
  /\ speech.stopped
  /\ speech.recognition = "idle"
  /\ ~speech.timer
  /\ ~speech.callback
  /\ ~recorder.isRecording

\* the recordings of the object store before the cleanup, as a set
Stored == {library.all[i] : i \in DOMAIN library.all}

\* recording r has at least n recordings before it when the most recently
\* created come first (recordings of the same day in key order)
NewerThan(r) ==
  {q \in Stored : \/ q.createdAt > r.createdAt
                  \/ q.createdAt = r.createdAt /\ q.id < r.id}

\* recording r matches a rule that the settings enable
MatchesRule(r) ==
  LET s == library.settings IN
  \/ /\ s.autoDeleteAfterDays # Null
     /\ s.autoDeleteAfterDays > 0
     /\ r.createdAt < Today - s.autoDeleteAfterDays
  \/ s.autoDeleteAfterDownload /\ r.isDownloaded
  \/ /\ s.keepOnlyLastN # Null
     /\ s.keepOnlyLastN > 0
     /\ Cardinality(NewerThan(r)) >= s.keepOnlyLastN

\* C37: when runAutoCleanup has returned, the recordings that are gone from
\* the database and from the in-memory list are exactly those that matched
\* an enabled rule (older than the cutoff of autoDeleteAfterDays; downloaded
\* with autoDeleteAfterDownload; not among the keepOnlyLastN most recently
\* created), the others are there unchanged, the return value is the number
\* deleted, and with keepOnlyLastN = N > 0 at most N recordings remain.
C37_CleanupExact ==
  library.pc = "returned" =>
    LET kept == {r \in Stored : ~MatchesRule(r)} IN
    /\ {library.disk[i] : i \in DOMAIN library.disk} = kept
    /\ {library.mem[i] : i \in DOMAIN library.mem} = kept
    /\ Len(library.disk) = Cardinality(kept)
    /\ Len(library.mem) = Cardinality(kept)
    /\ library.ret = Cardinality(Stored) - Cardinality(kept)
    /\ (library.settings.keepOnlyLastN # Null
          /\ library.settings.keepOnlyLastN > 0)
         => Len(library.disk) <= library.settings.keepOnlyLastN

\* a cleanup with the three rules enabled has deleted a recording for its
\* age and one for its rank, and has kept one
C37_Witness ==
  /\ library.pc = "returned"
  /\ library.settings = [autoDeleteAfterDays |-> 1,
                         autoDeleteAfterDownload |-> TRUE,
                         keepOnlyLastN |-> 1]
  /\ Len(library.all) = 3
  /\ library.ret = 2
  /\ Len(library.disk) = 1
  /\ \A i \in DOMAIN library.all : ~library.all[i].isDownloaded
  /\ \E i \in DOMAIN library.all : library.all[i].createdAt = 0
  /\ Cardinality({i \in DOMAIN library.all :
                    library.all[i].createdAt = Today}) = 2

====
